---- MODULE Spec2Model ----
(***************************************************************************)
(* Model of the kia login manager: the Authenticator's lockout policy      *)
(* (src/src/auth.c), the Session Launcher's privileged child               *)
(* (src/src/session.c) and the Controller's state machine                  *)
(* (src/src/controller.c).                                                 *)
(***************************************************************************)
EXTENDS Integers, Sequences, FiniteSets, TLC

(* ------------------------------------------------------------------ *)
(* Bounds of the model                                                 *)
(* ------------------------------------------------------------------ *)
\* largest value of the clock time(NULL) the model lets time reach
MaxTime == 3
\* longest time one identity-provider call may take
MaxCallDelay == 1
\* largest max_attempts a configuration of the model carries
MaxCfgAttempts == 3
\* largest lockout_duration a configuration of the model carries
MaxCfgLockout == 2

(* ------------------------------------------------------------------ *)
(* Program constants                                                   *)
(* ------------------------------------------------------------------ *)
KIA_SUCCESS == 0
KIA_ERROR_CONFIG == -1
KIA_ERROR_AUTH == -2
KIA_ERROR_SESSION == -3
KIA_ERROR_SYSTEM == -4
KIA_ERROR_PAM == -5

\* a null char pointer, and a null struct pointer; a non-null struct
\* pointer is the one-element sequence holding the struct
NULL == "(null)"
NULLPTR == << >>
Ref(x) == << x >>
Deref(p) == p[1]

(* ------------------------------------------------------------------ *)
(* The environment: accounts known to the identity provider            *)
(* ------------------------------------------------------------------ *)
\* identity names a caller or the login screen can supply
Names == {"alice", "bob"}
\* secrets a caller or the login screen can supply ("" is the zeroed buffer)
Passwords == {"", "pw1", "pw2"}
\* the secret the identity provider holds for each account it knows
Secrets == [alice |-> "pw1", bob |-> "pw2"]

\* the credential pair is the one the provider holds
CorrectSecret(u, p) == u \in DOMAIN Secrets /\ Secrets[u] = p

\* the answers the identity provider can give to one authenticate call:
\* session initialisation, credential check, account validation.  The
\* credential check can accept only the secret the provider holds.
PamVerdicts(u, p) ==
    { [start |-> FALSE, auth |-> FALSE, acct |-> FALSE],
      [start |-> TRUE,  auth |-> FALSE, acct |-> FALSE] }
    \cup (IF CorrectSecret(u, p)
          THEN { [start |-> TRUE, auth |-> TRUE, acct |-> TRUE],
                 [start |-> TRUE, auth |-> TRUE, acct |-> FALSE] }
          ELSE {})

(* ------------------------------------------------------------------ *)
(* Authenticator (src/src/auth.c)                                      *)
(* ------------------------------------------------------------------ *)
\* auth_state_t after memset(0)
AuthStateZero == [username |-> "", failed_attempts |-> 0, lockout_until |-> 0]

\* auth_is_locked_out that never reports a lockout
auth_is_locked_out_Never(state, t) == [ret |-> FALSE, state |-> state]

\* auth_is_locked_out with the comparison of the expiry reversed
auth_is_locked_out_Strict(state, t) ==
    IF state = NULLPTR THEN [ret |-> FALSE, state |-> state]
    ELSE IF Deref(state).lockout_until = 0 THEN [ret |-> FALSE, state |-> state]
    ELSE IF t > Deref(state).lockout_until
         THEN [ret |-> FALSE,
               state |-> Ref([Deref(state) EXCEPT !.lockout_until = 0,
                                                  !.failed_attempts = 0])]
         ELSE [ret |-> TRUE, state |-> state]

\* auth_is_locked_out that clears an expired lockout and keeps the counter
auth_is_locked_out_KeepCount(state, t) ==
    IF state = NULLPTR THEN [ret |-> FALSE, state |-> state]
    ELSE IF Deref(state).lockout_until = 0 THEN [ret |-> FALSE, state |-> state]
    ELSE IF t >= Deref(state).lockout_until
         THEN [ret |-> FALSE,
               state |-> Ref([Deref(state) EXCEPT !.lockout_until = 0])]
         ELSE [ret |-> TRUE, state |-> state]

\* auth_is_locked_out(state) called when time(NULL) returns t
auth_is_locked_out(state, t) ==
    IF state = NULLPTR THEN [ret |-> FALSE, state |-> state]
    ELSE IF Deref(state).lockout_until = 0 THEN [ret |-> FALSE, state |-> state]
    ELSE IF t >= Deref(state).lockout_until
         THEN [ret |-> FALSE,
               state |-> Ref([Deref(state) EXCEPT !.lockout_until = 0,
                                                  !.failed_attempts = 0])]
         ELSE [ret |-> TRUE, state |-> state]

\* auth_reset_attempts that clears the lockout and keeps the counter
auth_reset_attempts_KeepCount(state) ==
    IF state = NULLPTR THEN state
    ELSE Ref([Deref(state) EXCEPT !.lockout_until = 0])

\* auth_reset_attempts that clears the counter and keeps the lockout
auth_reset_attempts_KeepLockout(state) ==
    IF state = NULLPTR THEN state
    ELSE Ref([Deref(state) EXCEPT !.failed_attempts = 0])

\* auth_reset_attempts(state)
auth_reset_attempts(state) ==
    IF state = NULLPTR THEN state
    ELSE Ref([Deref(state) EXCEPT !.failed_attempts = 0, !.lockout_until = 0])

\* "Update state username if changed" without the reset of the counter
TrackUsername_NoReset(s, username) ==
    IF s.username # username THEN [s EXCEPT !.username = username] ELSE s

\* "Update state username if changed" keeping the counter of the identity
\* tracked before
TrackUsername_KeepCount(s, username) ==
    IF s.username # username
    THEN [s EXCEPT !.username = username, !.lockout_until = 0]
    ELSE s

\* "Update state username if changed"
TrackUsername(s, username) ==
    IF s.username # username
    THEN [username |-> username, failed_attempts |-> 0, lockout_until |-> 0]
    ELSE s

\* the credential-failure branch locking one attempt late
AuthFailure_Late(s, cfg, t) ==
    LET fa == s.failed_attempts + 1
    IN  [s EXCEPT !.failed_attempts = fa,
                  !.lockout_until = IF fa > cfg.max_attempts
                                    THEN t + cfg.lockout_duration ELSE @]

\* the credential-failure branch locking for at least one second
AuthFailure_MinLock(s, cfg, t) ==
    LET fa == s.failed_attempts + 1
    IN  [s EXCEPT !.failed_attempts = fa,
                  !.lockout_until =
                      IF fa >= cfg.max_attempts
                      THEN t + (IF cfg.lockout_duration = 0 THEN 1
                                ELSE cfg.lockout_duration)
                      ELSE @]

\* the branch taken when pam_authenticate rejects; time(NULL) returns t
AuthFailure(s, cfg, t) ==
    LET fa == s.failed_attempts + 1
    IN  [s EXCEPT !.failed_attempts = fa,
                  !.lockout_until = IF fa >= cfg.max_attempts
                                    THEN t + cfg.lockout_duration ELSE @]

\* the account-failure branch that forgets to count the attempt
AcctFailure_NoCount(s, cfg, t) == s

\* the account-failure branch locking at every failure
AcctFailure_AlwaysLock(s, cfg, t) ==
    [s EXCEPT !.failed_attempts = @ + 1,
              !.lockout_until = t + cfg.lockout_duration]

\* the branch taken when pam_acct_mgmt rejects; time(NULL) returns t
AcctFailure(s, cfg, t) ==
    LET fa == s.failed_attempts + 1
    IN  [s EXCEPT !.failed_attempts = fa,
                  !.lockout_until = IF fa >= cfg.max_attempts
                                    THEN t + cfg.lockout_duration ELSE @]

\* what one auth_authenticate call returns and what it did
AuthOut(ret, state, start, auth, acct) ==
    [ret |-> ret, state |-> state,
     pam_start |-> start, pam_auth |-> auth, pam_acct |-> acct]

\* auth_authenticate that skips the lockout check
auth_authenticate_NoLockout(username, password, config, state, t0, t1, pam) ==
    IF username = NULL \/ password = NULL \/ config = NULLPTR \/ state = NULLPTR
    THEN AuthOut(KIA_ERROR_AUTH, state, "not_called", "not_called", "not_called")
    ELSE LET s2  == TrackUsername(Deref(state), username)
             cfg == Deref(config)
         IN  IF ~pam.start
             THEN AuthOut(KIA_ERROR_PAM, Ref(s2), "fail", "not_called", "not_called")
             ELSE IF pam.auth
             THEN IF ~pam.acct
                  THEN AuthOut(KIA_ERROR_AUTH, Ref(AcctFailure(s2, cfg, t1)),
                               "ok", "accept", "reject")
                  ELSE AuthOut(KIA_SUCCESS, auth_reset_attempts(Ref(s2)),
                               "ok", "accept", "accept")
             ELSE AuthOut(KIA_ERROR_AUTH, Ref(AuthFailure(s2, cfg, t1)),
                          "ok", "reject", "not_called")

\* auth_authenticate that starts tracking the requested identity before it
\* checks the lockout
auth_authenticate_TrackFirst(username, password, config, state, t0, t1, pam) ==
    IF username = NULL \/ password = NULL \/ config = NULLPTR \/ state = NULLPTR
    THEN AuthOut(KIA_ERROR_AUTH, state, "not_called", "not_called", "not_called")
    ELSE auth_authenticate_NoLockout(
             username, password, config,
             auth_is_locked_out(Ref(TrackUsername(Deref(state), username)),
                                t0).state,
             t0, t1, pam)

\* auth_authenticate counting a provider session that failed to start as a
\* rejected attempt
auth_authenticate_PamStartCounts(username, password, config, state, t0, t1, pam) ==
    IF username = NULL \/ password = NULL \/ config = NULLPTR \/ state = NULLPTR
    THEN AuthOut(KIA_ERROR_AUTH, state, "not_called", "not_called", "not_called")
    ELSE LET lk == auth_is_locked_out(state, t0)
         IN  IF lk.ret
             THEN AuthOut(KIA_ERROR_AUTH, lk.state,
                          "not_called", "not_called", "not_called")
             ELSE LET s2  == TrackUsername(Deref(lk.state), username)
                      cfg == Deref(config)
                  IN  IF ~pam.start
                      THEN AuthOut(KIA_ERROR_PAM,
                                   Ref(AuthFailure(s2, cfg, t1)),
                                   "fail", "not_called", "not_called")
                      ELSE IF pam.auth
                      THEN IF ~pam.acct
                           THEN AuthOut(KIA_ERROR_AUTH,
                                        Ref(AcctFailure(s2, cfg, t1)),
                                        "ok", "accept", "reject")
                           ELSE AuthOut(KIA_SUCCESS,
                                        auth_reset_attempts(Ref(s2)),
                                        "ok", "accept", "accept")
                      ELSE AuthOut(KIA_ERROR_AUTH,
                                   Ref(AuthFailure(s2, cfg, t1)),
                                   "ok", "reject", "not_called")

\* auth_authenticate(username, password, config, state): time(NULL) returns
\* t0 in the lockout check and t1 >= t0 after the provider answered; pam is
\* the provider's answers
auth_authenticate(username, password, config, state, t0, t1, pam) ==
    IF username = NULL \/ password = NULL \/ config = NULLPTR \/ state = NULLPTR
    THEN AuthOut(KIA_ERROR_AUTH, state, "not_called", "not_called", "not_called")
    ELSE LET lk == auth_is_locked_out(state, t0)
         IN  IF lk.ret
             THEN AuthOut(KIA_ERROR_AUTH, lk.state,
                          "not_called", "not_called", "not_called")
             ELSE LET s2  == TrackUsername(Deref(lk.state), username)
                      cfg == Deref(config)
                  IN  IF ~pam.start
                      THEN AuthOut(KIA_ERROR_PAM, Ref(s2),
                                   "fail", "not_called", "not_called")
                      ELSE IF pam.auth
                      THEN IF ~pam.acct
                           THEN AuthOut(KIA_ERROR_AUTH,
                                        Ref(AcctFailure(s2, cfg, t1)),
                                        "ok", "accept", "reject")
                           ELSE AuthOut(KIA_SUCCESS,
                                        auth_reset_attempts(Ref(s2)),
                                        "ok", "accept", "accept")
                      ELSE AuthOut(KIA_ERROR_AUTH,
                                   Ref(AuthFailure(s2, cfg, t1)),
                                   "ok", "reject", "not_called")

\* one logger_log call: the level, the format and the formatted arguments
\* (%d arguments as their decimal text, strerror texts as their name)
Ev(level, fmt, args) == [level |-> level, fmt |-> fmt, args |-> args]

\* what tty_lock and tty_unlock can meet: the terminal cannot be opened,
\* VT switching cannot be locked, or it is locked and then unlocked or not
TtyOutcomes ==
    { [lock |-> "locked", unlock_ok |-> TRUE],
      [lock |-> "locked", unlock_ok |-> FALSE],
      [lock |-> "open_failed", unlock_ok |-> TRUE],
      [lock |-> "ioctl_failed", unlock_ok |-> TRUE] }

\* the events of tty_lock
tty_lock_log(tty) ==
    CASE tty.lock = "open_failed" ->
           << Ev("WARN", "Failed to open TTY for locking: %s", <<"strerror">>) >>
      [] tty.lock = "ioctl_failed" ->
           << Ev("WARN", "Failed to lock VT switching: %s", <<"strerror">>) >>
      [] tty.lock = "locked" ->
           << Ev("DEBUG", "TTY locked during authentication", << >>) >>

\* the events of tty_unlock
tty_unlock_log(tty) ==
    IF tty.lock # "locked" THEN << >>
    ELSE (IF tty.unlock_ok THEN << >>
          ELSE << Ev("WARN", "Failed to unlock VT switching: %s",
                     <<"strerror">>) >>)
         \o << Ev("DEBUG", "TTY unlocked after authentication", << >>) >>

\* the "locked out after %d failed attempts" event of the failure branches
lockout_log(username, s, cfg) ==
    IF s.failed_attempts >= cfg.max_attempts
    THEN << Ev("WARN", "User '%s' locked out after %d failed attempts",
               << username, ToString(s.failed_attempts) >>) >>
    ELSE << >>

\* the events auth_authenticate passes to the logger, in order, in the call
\* whose result auth_authenticate above gives
auth_authenticate_log(username, password, config, state, t0, t1, pam, tty) ==
    IF username = NULL \/ password = NULL \/ config = NULLPTR \/ state = NULLPTR
    THEN << Ev("ERROR", "Invalid parameters to auth_authenticate", << >>) >>
    ELSE LET lk == auth_is_locked_out(state, t0)
         IN  IF lk.ret
             THEN << Ev("WARN", "User '%s' is locked out for %d more seconds",
                        << username,
                           ToString(Deref(state).lockout_until - t0) >>) >>
             ELSE LET s2  == TrackUsername(Deref(lk.state), username)
                      cfg == Deref(config)
                  IN  IF ~pam.start
                      THEN tty_lock_log(tty)
                           \o << Ev("ERROR", "PAM initialization failed: %s",
                                    <<"pam_strerror">>) >>
                           \o tty_unlock_log(tty)
                      ELSE IF pam.auth
                      THEN IF ~pam.acct
                           THEN LET s3 == AcctFailure(s2, cfg, t1)
                                IN  tty_lock_log(tty)
                                    \o << Ev("ERROR",
                                             "PAM account verification failed for user '%s': %s",
                                             << username, "pam_strerror" >>) >>
                                    \o lockout_log(username, s3, cfg)
                                    \o tty_unlock_log(tty)
                           ELSE tty_lock_log(tty)
                                \o << Ev("INFO",
                                         "User '%s' authenticated successfully",
                                         << username >>) >>
                                \o tty_unlock_log(tty)
                      ELSE LET s3 == AuthFailure(s2, cfg, t1)
                           IN  tty_lock_log(tty)
                               \o << Ev("ERROR",
                                        "Authentication failed for user '%s' (attempt %d/%d): %s",
                                        << username, ToString(s3.failed_attempts),
                                           ToString(cfg.max_attempts),
                                           "pam_strerror" >>) >>
                               \o lockout_log(username, s3, cfg)
                               \o tty_unlock_log(tty)

\* one call auth_authenticate makes to the terminal or to the identity
\* provider, and whether it succeeded
Call(name, ok) == [call |-> name, ok |-> ok]

\* the calls to the provider with the account validation made first
pam_calls_AcctFirst(pam) ==
    IF ~pam.start THEN << Call("pam_start", FALSE) >>
    ELSE << Call("pam_start", TRUE), Call("pam_acct_mgmt", pam.acct),
            Call("pam_authenticate", pam.auth), Call("pam_end", TRUE) >>

\* the calls auth_authenticate makes to the identity provider, in order,
\* when it gives the answers pam
pam_calls(pam) ==
    IF ~pam.start THEN << Call("pam_start", FALSE) >>
    ELSE IF pam.auth
    THEN << Call("pam_start", TRUE), Call("pam_authenticate", TRUE),
            Call("pam_acct_mgmt", pam.acct), Call("pam_end", TRUE) >>
    ELSE << Call("pam_start", TRUE), Call("pam_authenticate", FALSE),
            Call("pam_end", TRUE) >>

\* auth_authenticate returning from a failed pam_start without tty_unlock
auth_authenticate_calls_Leak(username, password, config, state, t0, pam, tty) ==
    IF username = NULL \/ password = NULL \/ config = NULLPTR \/ state = NULLPTR
    THEN << >>
    ELSE IF auth_is_locked_out(state, t0).ret THEN << >>
    ELSE IF ~pam.start
    THEN << Call("tty_lock", tty.lock = "locked") >> \o pam_calls(pam)
    ELSE << Call("tty_lock", tty.lock = "locked") >>
         \o pam_calls(pam)
         \o << Call("tty_unlock", tty.unlock_ok) >>

\* the calls auth_authenticate makes to the terminal and to the identity
\* provider, in order: none on the two early returns; otherwise tty_lock,
\* the provider's calls, and tty_unlock before each return
auth_authenticate_calls(username, password, config, state, t0, pam, tty) ==
    IF username = NULL \/ password = NULL \/ config = NULLPTR \/ state = NULLPTR
    THEN << >>
    ELSE IF auth_is_locked_out(state, t0).ret THEN << >>
    ELSE << Call("tty_lock", tty.lock = "locked") >>
         \o pam_calls(pam)
         \o << Call("tty_unlock", tty.unlock_ok) >>

\* tty_fd after the calls, starting from fd: tty_lock leaves the descriptor
\* it opened when it locked and -1 when it failed; tty_unlock closes the
\* descriptor and leaves -1
RECURSIVE TtyFdAfter(_, _)
TtyFdAfter(calls, fd) ==
    IF calls = << >> THEN fd
    ELSE LET c == Head(calls)
         IN  TtyFdAfter(Tail(calls),
                        IF c.call = "tty_lock" THEN (IF c.ok THEN 3 ELSE -1)
                        ELSE IF c.call = "tty_unlock" THEN -1
                        ELSE fd)


(* ------------------------------------------------------------------ *)
(* State                                                               *)
(* ------------------------------------------------------------------ *)
VARIABLES
    state,              \* ctx->state
    running,            \* ctx->running
    result,             \* result of controller_run's last handler
    config,             \* ctx->config
    auth_state,         \* ctx->auth_state
    sessions,           \* ctx->sessions
    username,           \* ctx->username
    password,           \* ctx->password ("" is the zeroed buffer)
    selected_session,   \* ctx->selected_session
    now,                \* what time(NULL) returns
    child,              \* the process forked by session_start
    last,               \* the Authenticator call made by the latest step
    streak,             \* consecutive provider rejections of one identity
    reached_at,         \* when failed_attempts last reached max_attempts
    accepted,           \* identities auth_authenticate accepted in this run
    launch,             \* the latest session_start call and where it came from
    logged,             \* the events the Controller's handler and the
                        \* Authenticator passed to the logger in the latest step
    g_shutdown_requested, \* main.c's flag, set by signal_handler
    tty_fd,             \* auth.c's descriptor holding the terminal-switch
                        \* lock, -1 when none is held
    scan,               \* the latest session_discover call: the two
                        \* directories it read and what it returned
    cfg_call,           \* the latest call of the Configuration provider:
                        \* its argument and what it returned
    orphans             \* the session children still alive that session_start
                        \* stopped waiting for

ctxVars == << state, running, result, sessions, username, password,
              selected_session >>
runVars == << child, accepted, launch, g_shutdown_requested, scan, cfg_call, orphans >>
vars == << state, running, result, config, auth_state, sessions, username,
           password, selected_session, now, child, last, streak, reached_at,
           accepted, launch, logged, g_shutdown_requested, scan, cfg_call, orphans, tty_fd >>

\* kia_config_t after config_set_defaults
ConfigDefaults ==
    [autologin_enabled |-> FALSE, autologin_user |-> "",
     default_session |-> "xfce", max_attempts |-> 3, enable_logs |-> TRUE,
     lockout_duration |-> 60]

\* the latest step made no Authenticator call; otherwise the call, its
\* arguments, the state and the time it started from, and its outcome
NoCall ==
    [op |-> "none", username |-> "", password |-> "", config_null |-> FALSE,
     state_null |-> FALSE, pre |-> AuthStateZero, t0 |-> 0,
     ret |-> 0, locked |-> FALSE,
     pam_start |-> "not_called", pam_auth |-> "not_called",
     pam_acct |-> "not_called", calls |-> << >>]

\* no session_discover call was made yet; otherwise the two directories
\* the call met, whether reading them worked, and the code it returned
NoScan == [done |-> FALSE, x11 |-> [exists |-> FALSE, files |-> << >>],
           wayland |-> [exists |-> FALSE, files |-> << >>],
           io_ok |-> TRUE, ret |-> 0]

\* no call of the Configuration provider was made yet; otherwise the call
\* (config_load or config_validate), the file config_load read or the
\* configuration config_validate was handed, and the code returned
NoCfgCall ==
    [op |-> "none", file |-> [exists |-> FALSE, lines |-> << >>],
     arg_null |-> FALSE, arg |-> ConfigDefaults, ret |-> 0]

NoStreak == [user |-> "", n |-> 0, t |-> 0, cycled |-> 0]
NoChild == [pc |-> "none", ruid |-> 0, euid |-> 0, rgid |-> 0, egid |-> 0,
            steps |-> << >>, status |-> "none", uid |-> 0, gid |-> 0,
            type |-> "none"]
NoLaunch == [called |-> FALSE, user |-> "", from |-> "none",
             session |-> [name |-> "", exec |-> "", type |-> "none"],
             waited |-> "none", wait_ok |-> FALSE, session_null |-> FALSE,
             auth_user |-> ""]

\* the provider rejected the credentials or the account in this call
ProviderRejected(out) == out.pam_auth = "reject" \/ out.pam_acct = "reject"

\* the provider was contacted in this call
ProviderContacted(out) == out.pam_start # "not_called"

\* the longest run of rejected calls with changing identities that is
\* counted
MaxCycle == 3

\* consecutive provider rejections of one identity and the time of the
\* latest, after a call for u that ended at t; an attempt for another
\* identity, an acceptance and a reset end the streak
StreakAfter(s, u, out, cfg, t) ==
    IF ProviderRejected(out)
    THEN [user |-> u,
          n |-> IF s.user = u
                THEN (IF s.n > cfg.max_attempts THEN s.n ELSE s.n + 1)
                ELSE 1,
          t |-> t,
          cycled |-> s.cycled]
    ELSE IF ~ProviderContacted(out) THEN s
    ELSE IF out.ret = KIA_SUCCESS THEN [NoStreak EXCEPT !.cycled = s.cycled]
    ELSE IF s.user = u THEN s
    ELSE [user |-> u, n |-> 0, t |-> 0, cycled |-> s.cycled]

\* the provider-rejected calls of the current run in which each call names
\* another identity than the rejected call before it, after a call for u: a
\* rejected call for the same identity ends the run, an acceptance starts
\* a new one, a call that did not reach the provider's verdict leaves it
CycledAfter(s, u, out) ==
    IF ProviderRejected(out)
    THEN IF s.n = 0 \/ s.user # u
         THEN (IF s.cycled >= MaxCycle THEN MaxCycle ELSE s.cycled + 1)
         ELSE 0
    ELSE IF out.ret = KIA_SUCCESS THEN 0
    ELSE s.cycled

\* the record of one auth_authenticate call
AuthCallRecord(u, p, cp, sp, out) ==
    [op |-> "authenticate", username |-> u, password |-> p,
     config_null |-> (cp = NULLPTR), state_null |-> (sp = NULLPTR),
     pre |-> auth_state, t0 |-> now,
     ret |-> out.ret, locked |-> FALSE,
     pam_start |-> out.pam_start, pam_auth |-> out.pam_auth,
     pam_acct |-> out.pam_acct, calls |-> << >>]

(* ------------------------------------------------------------------ *)
(* The Authenticator called directly, with a fixed valid Configuration *)
(* ------------------------------------------------------------------ *)
\* configurations config_validate accepts, within the bounds of the model
ValidConfigs ==
    { [ConfigDefaults EXCEPT !.max_attempts = m, !.lockout_duration = d] :
        m \in 1..MaxCfgAttempts, d \in {0, MaxCfgLockout} }

\* the arguments of the direct calls: every identity and secret, empty
\* ones included, and each argument absent in turn
AuthArgs ==
    { << u, p, Ref(config), Ref(auth_state) >> :
        u \in Names \cup {""}, p \in Passwords }
    \cup { << NULL, "pw1", Ref(config), Ref(auth_state) >>,
           << "alice", NULL, Ref(config), Ref(auth_state) >>,
           << "alice", "pw1", NULLPTR, Ref(auth_state) >>,
           << "alice", "pw1", Ref(config), NULLPTR >> }

\* the terminal the direct callers run on: a virtual terminal that tty_lock
\* locks and tty_unlock unlocks (the controller's calls meet every outcome
\* of TtyOutcomes)
TtyOfDirectCalls == { [lock |-> "locked", unlock_ok |-> TRUE] }

InitAuth ==
    /\ state = "STATE_INIT"
    /\ running = TRUE
    /\ result = KIA_SUCCESS
    /\ config \in ValidConfigs
    /\ auth_state = AuthStateZero
    /\ sessions = << >>
    /\ username = ""
    /\ password = ""
    /\ selected_session = -1
    /\ now = 1
    /\ child = NoChild
    /\ last = NoCall
    /\ streak = NoStreak
    /\ reached_at = 0
    /\ accepted = {}
    /\ launch = NoLaunch
    /\ logged = << >>
    /\ g_shutdown_requested = FALSE
    /\ scan = NoScan
    /\ cfg_call = NoCfgCall
    /\ orphans = 0
    /\ tty_fd = -1

\* a caller invokes auth_authenticate
AuthenticateCall ==
    \E a \in AuthArgs, d \in 0..MaxCallDelay, tty \in TtyOfDirectCalls :
      \E pam \in PamVerdicts(a[1], a[2]) :
        LET out == auth_authenticate(a[1], a[2], a[3], a[4], now, now + d, pam)
            t1  == IF ProviderContacted(out) THEN now + d ELSE now
            post == IF a[4] = NULLPTR THEN auth_state ELSE Deref(out.state)
            calls == auth_authenticate_calls(a[1], a[2], a[3], a[4], now,
                                             pam, tty)
        IN  /\ t1 <= MaxTime
            /\ auth_state' = post
            /\ now' = t1
            /\ last' = [AuthCallRecord(a[1], a[2], a[3], a[4], out)
                          EXCEPT !.calls = calls]
            /\ tty_fd' = TtyFdAfter(calls, tty_fd)
            /\ logged' = auth_authenticate_log(a[1], a[2], a[3], a[4],
                                                now, now + d, pam, tty)
            /\ streak' = StreakAfter(streak, a[1], out, config, t1)
            /\ reached_at' =
                 IF ProviderRejected(out)
                    /\ post.failed_attempts = config.max_attempts
                 THEN t1 ELSE reached_at
            /\ UNCHANGED << config, ctxVars, runVars >>

\* a caller invokes auth_is_locked_out
IsLockedOutCall ==
    \E sp \in {NULLPTR, Ref(auth_state)} :
        LET out == auth_is_locked_out(sp, now)
        IN  /\ auth_state' = IF sp = NULLPTR THEN auth_state ELSE Deref(out.state)
            /\ last' = [NoCall EXCEPT !.op = "is_locked_out",
                                      !.state_null = (sp = NULLPTR),
                                      !.pre = auth_state, !.t0 = now,
                                      !.locked = out.ret]
            /\ logged' = << >>
            /\ UNCHANGED << config, now, streak, reached_at, ctxVars, runVars,
                            tty_fd >>

\* a caller invokes auth_reset_attempts
ResetAttemptsCall ==
    \E sp \in {NULLPTR, Ref(auth_state)} :
        LET out == auth_reset_attempts(sp)
        IN  /\ auth_state' = IF sp = NULLPTR THEN auth_state ELSE Deref(out)
            /\ last' = [NoCall EXCEPT !.op = "reset_attempts",
                                      !.state_null = (sp = NULLPTR),
                                      !.pre = auth_state, !.t0 = now]
            /\ streak' = IF sp = NULLPTR THEN streak ELSE NoStreak
            /\ logged' = << >>
            /\ UNCHANGED << config, now, reached_at, ctxVars, runVars, tty_fd >>

\* time passes between two calls
Tick ==
    /\ now < MaxTime
    /\ now' = now + 1
    /\ last' = [NoCall EXCEPT !.op = "tick"]
    /\ logged' = << >>
    /\ UNCHANGED << config, auth_state, streak, reached_at, ctxVars, runVars,
                    tty_fd >>

\* the valid arguments of a caller that tries one identity after another
CyclingArgs ==
    { << u, p, Ref(config), Ref(auth_state) >> : u \in Names, p \in Passwords }

\* a caller that counts its run of rejected attempts invokes
\* auth_authenticate
CyclingCall ==
    \E a \in CyclingArgs, d \in 0..MaxCallDelay, tty \in TtyOfDirectCalls :
      \E pam \in PamVerdicts(a[1], a[2]) :
        LET out == auth_authenticate(a[1], a[2], a[3], a[4], now, now + d, pam)
            t1  == IF ProviderContacted(out) THEN now + d ELSE now
            calls == auth_authenticate_calls(a[1], a[2], a[3], a[4], now,
                                             pam, tty)
        IN  /\ t1 <= MaxTime
            /\ auth_state' = Deref(out.state)
            /\ now' = t1
            /\ last' = [AuthCallRecord(a[1], a[2], a[3], a[4], out)
                          EXCEPT !.calls = calls]
            /\ tty_fd' = TtyFdAfter(calls, tty_fd)
            /\ logged' = auth_authenticate_log(a[1], a[2], a[3], a[4],
                                                now, now + d, pam, tty)
            /\ streak' = [StreakAfter(streak, a[1], out, config, t1)
                            EXCEPT !.cycled = CycledAfter(streak, a[1], out)]
            /\ UNCHANGED << config, reached_at, ctxVars, runVars >>

NextCycling ==
    \/ CyclingCall
    \/ Tick

SpecCycling == InitAuth /\ [][NextCycling]_vars

NextAuth ==
    \/ AuthenticateCall
    \/ IsLockedOutCall
    \/ ResetAttemptsCall
    \/ Tick

SpecAuth == InitAuth /\ [][NextAuth]_vars


(* ------------------------------------------------------------------ *)
(* Session Launcher (src/src/session.c)                                *)
(* ------------------------------------------------------------------ *)
\* the account records getpwnam resolves: bob has no home directory, and
\* no other identity has a record
Passwd ==
    [alice |-> [pw_uid |-> 1000, pw_gid |-> 100, pw_dir |-> "/home/alice",
                pw_shell |-> "/bin/bash"],
     bob   |-> [pw_uid |-> 1001, pw_gid |-> 100, pw_dir |-> "",
                pw_shell |-> ""]]

\* the checks of session_start without the check of the home directory
session_start_checks_NoHome(session, user) ==
    IF session = NULLPTR \/ user = NULL THEN KIA_ERROR_SESSION
    ELSE IF user = "" THEN KIA_ERROR_SESSION
    ELSE IF Deref(session).name = "" \/ Deref(session).exec = ""
         THEN KIA_ERROR_SESSION
    ELSE IF user \notin DOMAIN Passwd THEN KIA_ERROR_SESSION
    ELSE KIA_SUCCESS

\* the argument checks and the account lookup of session_start, before fork:
\* KIA_SUCCESS when the launch goes on to fork
session_start_checks(session, user) ==
    IF session = NULLPTR \/ user = NULL THEN KIA_ERROR_SESSION
    ELSE IF user = "" THEN KIA_ERROR_SESSION
    ELSE IF Deref(session).name = "" \/ Deref(session).exec = ""
         THEN KIA_ERROR_SESSION
    ELSE IF user \notin DOMAIN Passwd THEN KIA_ERROR_SESSION
    ELSE IF Passwd[user].pw_dir = "" THEN KIA_ERROR_SESSION
    ELSE KIA_SUCCESS

\* the child right after fork: it runs with the manager's identity
ForkedChild(session, user) ==
    [pc |-> "setenv", ruid |-> 0, euid |-> 0, rgid |-> 0, egid |-> 0,
     steps |-> << >>, status |-> "none",
     uid |-> Passwd[user].pw_uid, gid |-> Passwd[user].pw_gid,
     type |-> session.type]

\* the child's steps with the two identity drops swapped
NextChildStep_UserFirst(pc) ==
    CASE pc = "setenv" -> "chdir"
      [] pc = "chdir"  -> "setuid"
      [] pc = "setuid" -> "setgid"
      [] pc = "setgid" -> "verify"
      [] pc = "verify" -> "exec"
      [] pc = "exec"   -> "running"

\* the step the child takes after step pc succeeded
NextChildStep(pc) ==
    CASE pc = "setenv" -> "chdir"
      [] pc = "chdir"  -> "setgid"
      [] pc = "setgid" -> "setuid"
      [] pc = "setuid" -> "verify"
      [] pc = "verify" -> "exec"
      [] pc = "exec"   -> "running"

\* the verification that trusts the user ids alone
VerifyPrivileges_UidOnly(c) == c.ruid = c.uid /\ c.euid = c.uid

\* "Verify privilege drop": the four ids equal the target's
VerifyPrivileges(c) ==
    /\ c.ruid = c.uid
    /\ c.euid = c.uid
    /\ c.rgid = c.gid
    /\ c.egid = c.gid

\* what setgid(gid) can do to the child: fail, set the real and effective
\* group id, or report success having set the effective id only or nothing
SetgidOutcomes(c) ==
    { [ok |-> FALSE, c |-> c],
      [ok |-> TRUE,  c |-> [c EXCEPT !.rgid = c.gid, !.egid = c.gid]],
      [ok |-> TRUE,  c |-> [c EXCEPT !.egid = c.gid]],
      [ok |-> TRUE,  c |-> c] }

\* what setuid(uid) can do to the child, likewise
SetuidOutcomes(c) ==
    { [ok |-> FALSE, c |-> c],
      [ok |-> TRUE,  c |-> [c EXCEPT !.ruid = c.uid, !.euid = c.uid]],
      [ok |-> TRUE,  c |-> [c EXCEPT !.euid = c.uid]],
      [ok |-> TRUE,  c |-> c] }

\* the child that goes on after a failed chdir
ChildAfter_IgnoreChdir(c, pc, ok) ==
    IF ok \/ pc = "chdir"
    THEN [c EXCEPT !.pc = NextChildStep(pc),
                   !.steps = Append(@, [step |-> pc, ok |-> ok])]
    ELSE [c EXCEPT !.pc = "exited",
                   !.steps = Append(@, [step |-> pc, ok |-> FALSE]),
                   !.status = "exit_failure"]

\* the child after step pc: on to the next step, or exit(EXIT_FAILURE);
\* steps records the steps taken and whether each succeeded
ChildAfter(c, pc, ok) ==
    IF ok
    THEN [c EXCEPT !.pc = NextChildStep(pc),
                   !.steps = Append(@, [step |-> pc, ok |-> TRUE])]
    ELSE [c EXCEPT !.pc = "exited",
                   !.steps = Append(@, [step |-> pc, ok |-> FALSE]),
                   !.status = "exit_failure"]

\* the parent's classification that takes any normal exit for a success
WaitResult_AnyExit(wait_ok, status) ==
    IF ~wait_ok THEN KIA_ERROR_SESSION
    ELSE IF status = "signaled" THEN KIA_ERROR_SESSION
    ELSE KIA_SUCCESS

\* the parent's classification of waitpid's result
WaitResult(wait_ok, status) ==
    IF ~wait_ok THEN KIA_ERROR_SESSION
    ELSE IF status \in {"exit_failure", "exit_nonzero"} THEN KIA_ERROR_SESSION
    ELSE IF status = "signaled" THEN KIA_ERROR_SESSION
    ELSE KIA_SUCCESS

(* ------------------------------------------------------------------ *)
(* Configuration provider (src/src/config.c)                           *)
(* ------------------------------------------------------------------ *)
MIN_MAX_ATTEMPTS == 1
MAX_MAX_ATTEMPTS == 10
MAX_LOCKOUT_DURATION == 3600

\* parse_bool
parse_bool(value) == value \in {"true", "1", "yes", "on"}

\* atoi on the numeric texts the configuration files of the model hold
atoi(value) ==
    CASE value = "0" -> 0
      [] value = "1" -> 1
      [] value = "2" -> 2
      [] value = "5" -> 5
      [] value = "10" -> 10
      [] value = "11" -> 11
      [] value = "99" -> 99
      [] value = "3600" -> 3600
      [] value = "3601" -> 3601
      [] value = "-5" -> -5
      [] OTHER -> 0

\* parse_config_line without the upper limit on lockout_duration
parse_config_line_NoUpperLimit(line, cfg) ==
    IF line.key = "" THEN [ret |-> KIA_ERROR_CONFIG, config |-> cfg]
    ELSE IF line.key = "autologin_enabled"
    THEN [ret |-> KIA_SUCCESS,
          config |-> [cfg EXCEPT !.autologin_enabled = parse_bool(line.value)]]
    ELSE IF line.key = "autologin_user"
    THEN [ret |-> KIA_SUCCESS,
          config |-> [cfg EXCEPT !.autologin_user = line.value]]
    ELSE IF line.key = "default_session"
    THEN [ret |-> KIA_SUCCESS,
          config |-> [cfg EXCEPT !.default_session = line.value]]
    ELSE IF line.key = "max_attempts"
    THEN IF line.value = "" THEN [ret |-> KIA_ERROR_CONFIG, config |-> cfg]
         ELSE IF atoi(line.value) < MIN_MAX_ATTEMPTS
                 \/ atoi(line.value) > MAX_MAX_ATTEMPTS
         THEN [ret |-> KIA_ERROR_CONFIG, config |-> cfg]
         ELSE [ret |-> KIA_SUCCESS,
               config |-> [cfg EXCEPT !.max_attempts = atoi(line.value)]]
    ELSE IF line.key = "enable_logs"
    THEN [ret |-> KIA_SUCCESS,
          config |-> [cfg EXCEPT !.enable_logs = parse_bool(line.value)]]
    ELSE IF line.key = "lockout_duration"
    THEN IF line.value = "" THEN [ret |-> KIA_ERROR_CONFIG, config |-> cfg]
         ELSE IF atoi(line.value) < 0
         THEN [ret |-> KIA_ERROR_CONFIG, config |-> cfg]
         ELSE [ret |-> KIA_SUCCESS,
               config |-> [cfg EXCEPT !.lockout_duration = atoi(line.value)]]
    ELSE [ret |-> KIA_SUCCESS, config |-> cfg]

\* parse_config_line on a "key = value" line
parse_config_line(line, cfg) ==
    IF line.key = "" THEN [ret |-> KIA_ERROR_CONFIG, config |-> cfg]
    ELSE IF line.key = "autologin_enabled"
    THEN [ret |-> KIA_SUCCESS,
          config |-> [cfg EXCEPT !.autologin_enabled = parse_bool(line.value)]]
    ELSE IF line.key = "autologin_user"
    THEN [ret |-> KIA_SUCCESS,
          config |-> [cfg EXCEPT !.autologin_user = line.value]]
    ELSE IF line.key = "default_session"
    THEN [ret |-> KIA_SUCCESS,
          config |-> [cfg EXCEPT !.default_session = line.value]]
    ELSE IF line.key = "max_attempts"
    THEN IF line.value = "" THEN [ret |-> KIA_ERROR_CONFIG, config |-> cfg]
         ELSE IF atoi(line.value) < MIN_MAX_ATTEMPTS
                 \/ atoi(line.value) > MAX_MAX_ATTEMPTS
         THEN [ret |-> KIA_ERROR_CONFIG, config |-> cfg]
         ELSE [ret |-> KIA_SUCCESS,
               config |-> [cfg EXCEPT !.max_attempts = atoi(line.value)]]
    ELSE IF line.key = "enable_logs"
    THEN [ret |-> KIA_SUCCESS,
          config |-> [cfg EXCEPT !.enable_logs = parse_bool(line.value)]]
    ELSE IF line.key = "lockout_duration"
    THEN IF line.value = "" THEN [ret |-> KIA_ERROR_CONFIG, config |-> cfg]
         ELSE IF atoi(line.value) < 0
                 \/ atoi(line.value) > MAX_LOCKOUT_DURATION
         THEN [ret |-> KIA_ERROR_CONFIG, config |-> cfg]
         ELSE [ret |-> KIA_SUCCESS,
               config |-> [cfg EXCEPT !.lockout_duration = atoi(line.value)]]
    ELSE [ret |-> KIA_SUCCESS, config |-> cfg]

\* config_validate on a pointer to a configuration
config_validate(config_p) ==
    IF config_p = NULLPTR THEN KIA_ERROR_CONFIG
    ELSE LET cfg == Deref(config_p)
         IN  IF cfg.max_attempts < MIN_MAX_ATTEMPTS
                \/ cfg.max_attempts > MAX_MAX_ATTEMPTS
             THEN KIA_ERROR_CONFIG
             ELSE IF cfg.lockout_duration < 0 THEN KIA_ERROR_CONFIG
             ELSE KIA_SUCCESS

\* the loop of config_load over the lines of the file
RECURSIVE ParseLines(_, _, _)
ParseLines(lines, cfg, has_error) ==
    IF lines = << >> THEN [config |-> cfg, has_error |-> has_error]
    ELSE LET r == parse_config_line(Head(lines), cfg)
         IN  ParseLines(Tail(lines), r.config,
                        has_error \/ r.ret # KIA_SUCCESS)

\* config_load on a file that is missing or holds lines
config_load(file) ==
    IF ~file.exists THEN [ret |-> KIA_SUCCESS, config |-> ConfigDefaults]
    ELSE LET r == ParseLines(file.lines, ConfigDefaults, FALSE)
         IN  IF config_validate(Ref(r.config)) # KIA_SUCCESS
             THEN [ret |-> KIA_ERROR_CONFIG, config |-> ConfigDefaults]
             ELSE [ret |-> IF r.has_error THEN KIA_ERROR_CONFIG ELSE KIA_SUCCESS,
                   config |-> r.config]

KV(k, v) == [key |-> k, value |-> v]

\* the configuration files of the model
File(lines) == [exists |-> TRUE, lines |-> lines]
ConfigFiles ==
    { [exists |-> FALSE, lines |-> << >>],
      File(<< KV("autologin_enabled", "true"), KV("autologin_user", "alice"),
              KV("default_session", "sway") >>),
      File(<< KV("autologin_enabled", "yes"), KV("autologin_user", "ghost"),
              KV("max_attempts", "2"), KV("lockout_duration", "2") >>),
      File(<< KV("autologin_enabled", "on"), KV("autologin_user", "bob"),
              KV("max_attempts", "99"), KV("lockout_duration", "0"),
              KV("max_attempts", "1"), KV("default_session", "") >>),
      File(<< KV("autologin_enabled", "1"), KV("max_attempts", "1"),
              KV("lockout_duration", "0") >>) }

(* ------------------------------------------------------------------ *)
(* Session Catalog (src/src/session.c)                                 *)
(* ------------------------------------------------------------------ *)
\* parse_desktop_file taking a descriptor without an Exec field
parse_desktop_file_NameOnly(file, type) ==
    IF file.name = ""
    THEN [ret |-> KIA_ERROR_SESSION,
          session |-> [name |-> file.name, exec |-> file.exec, type |-> type]]
    ELSE [ret |-> KIA_SUCCESS,
          session |-> [name |-> file.name, exec |-> file.exec, type |-> type]]

\* parse_desktop_file on a descriptor file with the two fields it may hold
parse_desktop_file(file, type) ==
    IF file.name = "" \/ file.exec = ""
    THEN [ret |-> KIA_ERROR_SESSION,
          session |-> [name |-> file.name, exec |-> file.exec, type |-> type]]
    ELSE [ret |-> KIA_SUCCESS,
          session |-> [name |-> file.name, exec |-> file.exec, type |-> type]]

\* the loop of scan_session_directory over the descriptor files
RECURSIVE ScanFiles(_, _, _)
ScanFiles(files, type, list) ==
    IF files = << >> THEN list
    ELSE LET r == parse_desktop_file(Head(files), type)
         IN  ScanFiles(Tail(files), type,
                       IF r.ret = KIA_SUCCESS THEN Append(list, r.session)
                       ELSE list)

\* scan_session_directory on a directory that is absent or holds files
scan_session_directory(dir, type, list) ==
    IF ~dir.exists THEN [ret |-> KIA_SUCCESS, list |-> list]
    ELSE [ret |-> KIA_SUCCESS, list |-> ScanFiles(dir.files, type, list)]

\* session_discover over the two directories; io_ok is false when reading
\* a directory or growing the list fails
session_discover(fs, io_ok) ==
    IF ~io_ok THEN [ret |-> KIA_ERROR_SESSION, list |-> << >>]
    ELSE LET x == scan_session_directory(fs.x11, "SESSION_X11", << >>)
             w == scan_session_directory(fs.wayland, "SESSION_WAYLAND", x.list)
         IN  IF Len(w.list) = 0
             THEN [ret |-> KIA_ERROR_SESSION, list |-> w.list]
             ELSE [ret |-> KIA_SUCCESS, list |-> w.list]

Desc(n, e) == [name |-> n, exec |-> e]

\* the contents of the two session directories in the model
Dir(files) == [exists |-> TRUE, files |-> files]
NoDir == [exists |-> FALSE, files |-> << >>]
FileSystems ==
    { [x11 |-> NoDir, wayland |-> NoDir],
      [x11 |-> Dir(<< Desc("xfce", "startxfce4") >>), wayland |-> NoDir],
      [x11 |-> Dir(<< Desc("xfce", "startxfce4"), Desc("broken", "") >>),
       wayland |-> Dir(<< Desc("sway", "sway") >>)] }

(* ------------------------------------------------------------------ *)
(* Controller (src/src/controller.c)                                   *)
(* ------------------------------------------------------------------ *)
\* a clearing of the buffer that the compiler removed
secure_memzero_Elided(buf) == buf

\* secure_memzero(buf, sizeof(buf)): every byte of the buffer is 0
secure_memzero(buf) == ""

\* kia_config_t after controller_init's memset
ConfigZero ==
    [autologin_enabled |-> FALSE, autologin_user |-> "",
     default_session |-> "", max_attempts |-> 0, enable_logs |-> FALSE,
     lockout_duration |-> 0]

\* user_exists
\* user_exists answering yes for every name
user_exists_Any(name) == TRUE

\* user_exists: getpwnam finds the name
user_exists(name) == name # "" /\ name \in DOMAIN Passwd

\* the search that reports -1 when no default is named or none matches
find_default_session_NoFallback(list, default_name) ==
    IF Len(list) <= 0 THEN 0
    ELSE IF default_name = "" THEN -1
    ELSE IF \E i \in 1..Len(list) : list[i].name = default_name
         THEN (CHOOSE i \in 1..Len(list) :
                  /\ list[i].name = default_name
                  /\ \A j \in 1..(i - 1) : list[j].name # default_name) - 1
         ELSE -1

\* find_default_session: the first index (from 0) whose name matches, else 0
find_default_session(list, default_name) ==
    IF Len(list) <= 0 THEN 0
    ELSE IF default_name = "" THEN 0
    ELSE IF \E i \in 1..Len(list) : list[i].name = default_name
         THEN (CHOOSE i \in 1..Len(list) :
                  /\ list[i].name = default_name
                  /\ \A j \in 1..(i - 1) : list[j].name # default_name) - 1
         ELSE 0

\* the controller after controller_init
Init ==
    /\ state = "STATE_INIT"
    /\ running = TRUE
    /\ result = KIA_SUCCESS
    /\ config = ConfigZero
    /\ auth_state = AuthStateZero
    /\ sessions = << >>
    /\ username = ""
    /\ password = ""
    /\ selected_session = -1
    /\ now = 1
    /\ child = NoChild
    /\ last = NoCall
    /\ streak = NoStreak
    /\ reached_at = 0
    /\ accepted = {}
    /\ launch = NoLaunch
    /\ logged = << >>
    /\ g_shutdown_requested = FALSE
    /\ scan = NoScan
    /\ cfg_call = NoCfgCall
    /\ orphans = 0
    /\ tty_fd = -1

\* the loop of controller_run runs one more handler
Looping == running /\ state # "STATE_EXIT"

\* what the handlers of the controller leave alone unless they say otherwise
ghostVars == << streak, reached_at, g_shutdown_requested, scan, cfg_call, orphans, tty_fd >>

\* handle_init
HandleInit ==
    /\ Looping /\ state = "STATE_INIT"
    /\ \E tui_ok \in BOOLEAN :
        /\ IF tui_ok
           THEN state' = "STATE_LOAD_CONFIG" /\ result' = KIA_SUCCESS
           ELSE state' = "STATE_EXIT" /\ result' = KIA_ERROR_SYSTEM
        /\ logged' =
             << Ev("INFO", "Kia display manager started (version %s)",
                   <<"KIA_VERSION">>),
                Ev("INFO", "Authentication module initialized", << >>) >>
             \o (IF tui_ok THEN << >>
                 ELSE << Ev("ERROR", "Failed to initialize TUI", << >>) >>)
    /\ last' = NoCall
    /\ UNCHANGED << running, config, auth_state, sessions, username, password,
                    selected_session, now, child, accepted, launch, ghostVars >>

\* a handler that gives up when the configuration could not be loaded
AfterLoadConfig_ConfigFatal(cret, dret, count) ==
    IF cret # KIA_SUCCESS \/ dret # KIA_SUCCESS \/ count = 0
    THEN [state |-> "STATE_EXIT", result |-> KIA_ERROR_SESSION]
    ELSE [state |-> "STATE_CHECK_AUTOLOGIN", result |-> KIA_SUCCESS]

\* the state handle_load_config moves to and the code it returns, on what
\* config_load and session_discover returned and the size of the catalog
AfterLoadConfig(cret, dret, count) ==
    IF dret # KIA_SUCCESS \/ count = 0
    THEN [state |-> "STATE_EXIT", result |-> KIA_ERROR_SESSION]
    ELSE [state |-> "STATE_CHECK_AUTOLOGIN", result |-> KIA_SUCCESS]

\* handle_load_config
HandleLoadConfig ==
    /\ Looping /\ state = "STATE_LOAD_CONFIG"
    /\ \E file \in ConfigFiles, fs \in FileSystems, io_ok \in BOOLEAN :
        LET c == config_load(file)
            d == session_discover(fs, io_ok)
        IN  /\ config' = c.config
            /\ sessions' = d.list
            /\ scan' = [done |-> TRUE, x11 |-> fs.x11, wayland |-> fs.wayland,
                        io_ok |-> io_ok, ret |-> d.ret]
            /\ cfg_call' = [NoCfgCall EXCEPT !.op = "load", !.file = file,
                                             !.ret = c.ret]
            /\ state' = AfterLoadConfig(c.ret, d.ret, Len(d.list)).state
            /\ result' = AfterLoadConfig(c.ret, d.ret, Len(d.list)).result
            /\ logged' =
                 (IF c.ret # KIA_SUCCESS
                  THEN << Ev("WARN",
                             "Failed to load config from %s, using defaults",
                             <<"KIA_CONFIG_PATH">>) >>
                  ELSE << >>)
                 \o (IF config_validate(Ref(c.config)) # KIA_SUCCESS
                     THEN << Ev("WARN",
                                "Configuration validation failed, using defaults",
                                << >>) >>
                     ELSE << >>)
                 \o (IF d.ret # KIA_SUCCESS \/ Len(d.list) = 0
                     THEN << Ev("ERROR", "No sessions found", << >>) >>
                     ELSE << Ev("INFO", "Discovered %d session(s)",
                                << ToString(Len(d.list)) >>) >>)
    /\ last' = NoCall
    /\ UNCHANGED << running, auth_state, username, password, selected_session,
                    now, child, accepted, launch, streak, reached_at,
                    g_shutdown_requested, tty_fd, orphans >>

\* handle_check_autologin; the identity names of the model are shorter than
\* the 256-byte buffers, so the length checks never reject one
HandleCheckAutologin ==
    /\ Looping /\ state = "STATE_CHECK_AUTOLOGIN"
    /\ IF config.autologin_enabled /\ config.autologin_user # ""
       THEN IF ~user_exists(config.autologin_user)
            THEN /\ state' = "STATE_SHOW_LOGIN"
                 /\ logged' = << Ev("ERROR",
                                    "Autologin user '%s' does not exist",
                                    << config.autologin_user >>) >>
                 /\ UNCHANGED << username, selected_session, launch >>
            ELSE LET idx == find_default_session(sessions, config.default_session)
                 IN  /\ username' = config.autologin_user
                     /\ selected_session' = idx
                     /\ IF idx < 0 \/ idx >= Len(sessions)
                        THEN /\ state' = "STATE_SHOW_LOGIN"
                             /\ logged' =
                                  << Ev("ERROR",
                                        "Invalid session index for autologin: %d",
                                        << ToString(idx) >>) >>
                             /\ UNCHANGED launch
                        ELSE /\ state' = "STATE_START_SESSION"
                             /\ logged' =
                                  << Ev("INFO",
                                        "Autologin enabled for user '%s' with session '%s'",
                                        << config.autologin_user,
                                           sessions[idx + 1].name >>) >>
                             /\ launch' = [NoLaunch EXCEPT !.from = "autologin"]
       ELSE /\ state' = "STATE_SHOW_LOGIN"
            /\ logged' = << >>
            /\ UNCHANGED << username, selected_session, launch >>
    /\ result' = KIA_SUCCESS
    /\ last' = NoCall
    /\ UNCHANGED << running, config, auth_state, sessions, password, now, child,
                    accepted, ghostVars >>

\* handle_show_login
HandleShowLogin ==
    /\ Looping /\ state = "STATE_SHOW_LOGIN"
    /\ state' = "STATE_GET_CREDENTIALS"
    /\ result' = KIA_SUCCESS
    /\ last' = NoCall
    /\ launch' = NoLaunch
    /\ logged' = << >>
    /\ UNCHANGED << running, config, auth_state, sessions, username, password,
                    selected_session, now, child, accepted, ghostVars >>

\* what tui_get_credentials can do to the two buffers: fail before it
\* clears them, fail after it cleared them and some input was typed, or
\* return a non-empty identity and whatever secret was typed
TuiCredentials ==
    { [ret |-> KIA_ERROR_SYSTEM, username |-> username, password |-> password] }
    \cup { [ret |-> KIA_ERROR_SYSTEM, username |-> u, password |-> p] :
             u \in Names \cup {""}, p \in Passwords }
    \cup { [ret |-> KIA_SUCCESS, username |-> u, password |-> p] :
             u \in Names, p \in Passwords }

\* a handler that does not check the secret for emptiness
handle_get_credentials_next_NoSecretCheck(r) ==
    IF r.ret # KIA_SUCCESS
    THEN [state |-> "STATE_SHOW_LOGIN", result |-> r.ret]
    ELSE IF r.username = ""
    THEN [state |-> "STATE_SHOW_LOGIN", result |-> KIA_SUCCESS]
    ELSE [state |-> "STATE_SELECT_SESSION", result |-> KIA_SUCCESS]

\* the state handle_get_credentials moves to and the code it returns, on
\* what tui_get_credentials returned and left in the two buffers;
\* tui_get_credentials takes at most 20 characters, so the check for a name
\* longer than 255 never rejects one
handle_get_credentials_next(r) ==
    IF r.ret # KIA_SUCCESS
    THEN [state |-> "STATE_SHOW_LOGIN", result |-> r.ret]
    ELSE IF r.username = ""
    THEN [state |-> "STATE_SHOW_LOGIN", result |-> KIA_SUCCESS]
    ELSE IF r.password = ""
    THEN [state |-> "STATE_SHOW_LOGIN", result |-> KIA_SUCCESS]
    ELSE [state |-> "STATE_SELECT_SESSION", result |-> KIA_SUCCESS]

\* a handler that logs the credentials it read
handle_get_credentials_log_Secret(r) ==
    IF r.ret # KIA_SUCCESS
    THEN << Ev("ERROR", "Failed to get credentials from TUI: %d",
               << ToString(r.ret) >>) >>
    ELSE IF r.username = ""
    THEN << Ev("WARN", "Empty username provided", << >>) >>
    ELSE IF r.password = ""
    THEN << Ev("WARN", "Empty password provided for user '%s'",
               << r.username >>) >>
    ELSE << Ev("DEBUG", "Credentials read for user '%s': %s",
               << r.username, r.password >>) >>

\* the events handle_get_credentials passes to the logger
handle_get_credentials_log(r) ==
    IF r.ret # KIA_SUCCESS
    THEN << Ev("ERROR", "Failed to get credentials from TUI: %d",
               << ToString(r.ret) >>) >>
    ELSE IF r.username = ""
    THEN << Ev("WARN", "Empty username provided", << >>) >>
    ELSE IF r.password = ""
    THEN << Ev("WARN", "Empty password provided for user '%s'",
               << r.username >>) >>
    ELSE << >>

\* handle_get_credentials
HandleGetCredentials ==
    /\ Looping /\ state = "STATE_GET_CREDENTIALS"
    /\ \E r \in TuiCredentials :
        /\ username' = r.username
        /\ password' = r.password
        /\ state' = handle_get_credentials_next(r).state
        /\ result' = handle_get_credentials_next(r).result
        /\ logged' = handle_get_credentials_log(r)
    /\ last' = NoCall
    /\ UNCHANGED << running, config, auth_state, sessions, selected_session,
                    now, child, accepted, launch, ghostVars >>

\* handle_select_session: tui_select_session returns -1 or an index
HandleSelectSession ==
    /\ Looping /\ state = "STATE_SELECT_SESSION"
    /\ \E sel \in {-1} \cup (0..(Len(sessions) - 1)) :
        /\ selected_session' = sel
        /\ IF sel < 0 \/ sel >= Len(sessions)
           THEN /\ state' = "STATE_SHOW_LOGIN" /\ result' = KIA_ERROR_SESSION
                /\ logged' = << Ev("ERROR", "Invalid session selection: %d",
                                   << ToString(sel) >>) >>
           ELSE /\ state' = "STATE_AUTHENTICATE" /\ result' = KIA_SUCCESS
                /\ logged' = << Ev("INFO", "User '%s' selected session: %s",
                                   << username, sessions[sel + 1].name >>) >>
    /\ last' = NoCall
    /\ UNCHANGED << running, config, auth_state, sessions, username, password,
                    now, child, accepted, launch, ghostVars >>

\* the transition that also starts the session when the provider's session
\* could not be initialised
AfterAuthenticate_PamErrorAccepted(ret) ==
    IF ret = KIA_SUCCESS \/ ret = KIA_ERROR_PAM THEN "STATE_START_SESSION"
    ELSE "STATE_SHOW_LOGIN"

\* the transition that starts the session whatever the Authenticator said
AfterAuthenticate_Always(ret) == "STATE_START_SESSION"

\* the transition that ends the loop when the Authenticator rejects
AfterAuthenticate_FatalReject(ret) ==
    IF ret = KIA_SUCCESS THEN "STATE_START_SESSION" ELSE "STATE_EXIT"

\* the state handle_authenticate moves to on auth_authenticate's result
AfterAuthenticate(ret) ==
    IF ret = KIA_SUCCESS THEN "STATE_START_SESSION" ELSE "STATE_SHOW_LOGIN"

\* the event of handle_authenticate's locked-out branch
locked_out_log(u) == << Ev("WARN", "User '%s' is locked out", << u >>) >>

\* the events handle_authenticate and the auth_authenticate call it makes
\* pass to the logger, with the context's identity u, secret p,
\* configuration cfg and attempt state st
handle_authenticate_log(u, p, cfg, st, t0, t1, pam, tty) ==
    LET lk == auth_is_locked_out(Ref(st), t0)
    IN  IF lk.ret THEN locked_out_log(u)
        ELSE LET out  == auth_authenticate(u, p, Ref(cfg), lk.state, t0, t1, pam)
                 post == Deref(out.state)
             IN  auth_authenticate_log(u, p, Ref(cfg), lk.state, t0, t1, pam, tty)
                 \o (IF out.ret = KIA_SUCCESS
                     THEN << Ev("INFO", "User '%s' authenticated successfully",
                                << u >>) >>
                     ELSE << Ev("ERROR",
                                "Authentication failed for user '%s' (attempt %d/%d)",
                                << u, ToString(post.failed_attempts),
                                   ToString(cfg.max_attempts) >>) >>)

\* handle_authenticate
HandleAuthenticate ==
    /\ Looping /\ state = "STATE_AUTHENTICATE"
    /\ LET lk == auth_is_locked_out(Ref(auth_state), now)
       IN  IF lk.ret
           THEN /\ auth_state' = Deref(lk.state)
                /\ last' = [NoCall EXCEPT !.op = "is_locked_out",
                                          !.username = username,
                                          !.password = password,
                                          !.pre = auth_state, !.t0 = now,
                                          !.locked = TRUE]
                /\ state' = "STATE_SHOW_LOGIN"
                /\ logged' = locked_out_log(username)
                /\ UNCHANGED << now, accepted, launch, tty_fd >>
           ELSE \E d \in 0..MaxCallDelay, tty \in TtyOutcomes :
                \E pam \in PamVerdicts(username, password) :
                  LET out == auth_authenticate(username, password, Ref(config),
                                               lk.state, now, now + d, pam)
                      nxt == AfterAuthenticate(out.ret)
                      calls == auth_authenticate_calls(
                                 username, password, Ref(config), lk.state,
                                 now, pam, tty)
                  IN  /\ now + d <= MaxTime
                      /\ now' = now + d
                      /\ last' = [AuthCallRecord(username, password,
                                                 Ref(config), lk.state, out)
                                    EXCEPT !.calls = calls]
                      /\ tty_fd' = TtyFdAfter(calls, tty_fd)
                      /\ logged' = handle_authenticate_log(
                                      username, password, config, auth_state,
                                      now, now + d, pam, tty)
                      /\ auth_state' =
                            IF out.ret = KIA_SUCCESS
                            THEN Deref(auth_reset_attempts(out.state))
                            ELSE Deref(out.state)
                      /\ accepted' = IF out.ret = KIA_SUCCESS
                                     THEN accepted \cup {username} ELSE accepted
                      /\ state' = nxt
                      /\ launch' = IF nxt = "STATE_START_SESSION"
                                   THEN [NoLaunch EXCEPT
                                           !.from = "authenticate",
                                           !.auth_user =
                                               IF out.ret = KIA_SUCCESS
                                               THEN username ELSE ""]
                                   ELSE launch
    /\ password' = secure_memzero(password)
    /\ result' = KIA_SUCCESS
    /\ UNCHANGED << running, config, sessions, username, selected_session,
                    child, streak, reached_at, g_shutdown_requested, scan, cfg_call, orphans >>

\* the transition that ends the loop whatever session_start returned
AfterStartSession_AlwaysExit(ret) == "STATE_EXIT"

\* the handler that tries the autologin again after a failed launch
AfterStartSession_RetryAutologin(ret) ==
    IF ret # KIA_SUCCESS THEN "STATE_CHECK_AUTOLOGIN" ELSE "STATE_EXIT"

\* the state handle_start_session moves to on session_start's result
AfterStartSession(ret) ==
    IF ret # KIA_SUCCESS THEN "STATE_SHOW_LOGIN" ELSE "STATE_EXIT"

\* handle_start_session up to the fork of session_start
HandleStartSession ==
    /\ Looping /\ state = "STATE_START_SESSION" /\ child.pc = "none"
    /\ IF selected_session < 0 \/ selected_session >= Len(sessions)
       THEN /\ state' = "STATE_SHOW_LOGIN"
            /\ result' = KIA_ERROR_SESSION
            /\ logged' = << Ev("ERROR", "Invalid session index: %d",
                               << ToString(selected_session) >>) >>
            /\ UNCHANGED << child, launch >>
       ELSE LET session == sessions[selected_session + 1]
                chk == session_start_checks(Ref(session), username)
                starting ==
                    << Ev("INFO", "Starting %s session '%s' for user '%s'",
                          << IF session.type = "SESSION_X11"
                             THEN "X11" ELSE "Wayland",
                             session.name, username >>) >>
                failed ==
                    << Ev("ERROR", "Failed to start session for user '%s'",
                          << username >>) >>
            IN  /\ launch' = [launch EXCEPT !.called = TRUE, !.user = username,
                                            !.session = session]
                /\ IF chk # KIA_SUCCESS
                   THEN /\ state' = AfterStartSession(chk)
                        /\ result' = chk
                        /\ logged' = starting \o failed
                        /\ UNCHANGED child
                   ELSE \E fork_ok \in BOOLEAN :
                          IF fork_ok
                          THEN /\ child' = ForkedChild(session, username)
                               /\ logged' = starting
                               /\ UNCHANGED << state, result >>
                          ELSE /\ state' = AfterStartSession(KIA_ERROR_SESSION)
                               /\ result' = KIA_ERROR_SESSION
                               /\ logged' = starting \o failed
                               /\ UNCHANGED child
    /\ last' = NoCall
    /\ UNCHANGED << running, config, auth_state, sessions, username, password,
                    selected_session, now, accepted, ghostVars >>

\* session_start in the parent: waitpid returned for the terminated child
HandleStartSessionWait ==
    /\ Looping /\ state = "STATE_START_SESSION" /\ child.pc = "exited"
    /\ \E wait_ok \in BOOLEAN :
        LET r == WaitResult(wait_ok, child.status)
        IN  /\ state' = AfterStartSession(r)
            /\ result' = r
            /\ launch' = [launch EXCEPT !.waited = child.status,
                                        !.wait_ok = wait_ok]
            /\ logged' =
                 IF r # KIA_SUCCESS
                 THEN << Ev("ERROR", "Failed to start session for user '%s'",
                            << username >>) >>
                 ELSE << Ev("INFO",
                            "Session started successfully, exiting display manager",
                            << >>) >>
    /\ child' = NoChild
    /\ last' = NoCall
    /\ UNCHANGED << running, config, auth_state, sessions, username, password,
                    selected_session, now, accepted, ghostVars >>

ctlUnchanged == << state, running, result, config, auth_state, sessions,
                   username, password, selected_session, now, last, accepted,
                   launch, streak, reached_at, logged, g_shutdown_requested, scan, cfg_call, orphans,
                   tty_fd >>

\* the child sets the session environment variables
ChildSetenv ==
    /\ child.pc = "setenv"
    /\ \E ok \in BOOLEAN : child' = ChildAfter(child, "setenv", ok)
    /\ UNCHANGED ctlUnchanged

\* the child changes to the home directory
ChildChdir ==
    /\ child.pc = "chdir"
    /\ \E ok \in BOOLEAN : child' = ChildAfter(child, "chdir", ok)
    /\ UNCHANGED ctlUnchanged

\* the child drops the group identity
ChildSetgid ==
    /\ child.pc = "setgid"
    /\ \E o \in SetgidOutcomes(child) : child' = ChildAfter(o.c, "setgid", o.ok)
    /\ UNCHANGED ctlUnchanged

\* the child drops the user identity
ChildSetuid ==
    /\ child.pc = "setuid"
    /\ \E o \in SetuidOutcomes(child) : child' = ChildAfter(o.c, "setuid", o.ok)
    /\ UNCHANGED ctlUnchanged

\* the child verifies the four ids
ChildVerify ==
    /\ child.pc = "verify"
    /\ child' = ChildAfter(child, "verify", VerifyPrivileges(child))
    /\ UNCHANGED ctlUnchanged

\* the child executes the session: for X11 startx and then the shell, else
\* the shell; when every exec call fails the child exits with a failure
ChildExec ==
    /\ child.pc = "exec"
    /\ \E startx_ok \in BOOLEAN, sh_ok \in BOOLEAN :
        child' = ChildAfter(child, "exec",
                            IF child.type = "SESSION_X11"
                            THEN startx_ok \/ sh_ok ELSE sh_ok)
    /\ UNCHANGED ctlUnchanged

\* the executed session terminates
SessionEnds ==
    /\ child.pc = "running"
    /\ \E st \in {"exit_0", "exit_nonzero", "signaled"} :
        child' = [child EXCEPT !.pc = "exited", !.status = st]
    /\ UNCHANGED ctlUnchanged

\* time passes
TimePasses ==
    /\ Looping
    /\ now < MaxTime
    /\ now' = now + 1
    /\ last' = [NoCall EXCEPT !.op = "tick"]
    /\ logged' = << >>
    /\ UNCHANGED << state, running, result, config, auth_state, sessions,
                    username, password, selected_session, child, accepted,
                    launch, streak, reached_at, g_shutdown_requested, scan, cfg_call, orphans, tty_fd >>

\* a session child is alive: forked and not yet terminated
ChildAlive(c) == c.pc \notin {"none", "exited"}

\* SIGTERM or SIGINT arrives while session_start is blocked in waitpid for
\* a child that is alive: signal_handler sets the flag, and since the
\* handlers are installed without SA_RESTART waitpid returns -1 (EINTR);
\* session_start returns KIA_ERROR_SESSION and handle_start_session goes
\* back to the login screen, the child running on
SignalInterruptsWait ==
    /\ Looping /\ state = "STATE_START_SESSION"
    /\ ChildAlive(child)
    /\ ~g_shutdown_requested
    /\ g_shutdown_requested' = TRUE
    /\ state' = AfterStartSession(KIA_ERROR_SESSION)
    /\ result' = KIA_ERROR_SESSION
    /\ launch' = [launch EXCEPT !.waited = "interrupted", !.wait_ok = FALSE]
    /\ logged' = << Ev("ERROR", "Failed to wait for child process: %s",
                       << "EINTR" >>),
                    Ev("ERROR", "Failed to start session for user '%s'",
                       << username >>) >>
    /\ orphans' = orphans + 1
    /\ child' = NoChild
    /\ last' = NoCall
    /\ UNCHANGED << running, config, auth_state, sessions, username, password,
                    selected_session, now, accepted, streak, reached_at, scan,
                    cfg_call, tty_fd >>

\* a session child nobody waits for terminates
OrphanEnds ==
    /\ orphans > 0
    /\ orphans' = orphans - 1
    /\ UNCHANGED << state, running, result, config, auth_state, sessions,
                    username, password, selected_session, now, child, last,
                    streak, reached_at, accepted, launch, logged, tty_fd,
                    scan, cfg_call, g_shutdown_requested >>

\* SIGTERM or SIGINT arrives while no waitpid is blocked: signal_handler
\* sets the flag of main.c and returns
SignalArrives ==
    /\ Looping
    /\ ~ChildAlive(child)
    /\ ~g_shutdown_requested
    /\ g_shutdown_requested' = TRUE
    /\ UNCHANGED << state, running, result, config, auth_state, sessions,
                    username, password, selected_session, now, child, last,
                    streak, reached_at, accepted, launch, logged, tty_fd,
                    scan, cfg_call, orphans >>

Next ==
    \/ HandleInit
    \/ HandleLoadConfig
    \/ HandleCheckAutologin
    \/ HandleShowLogin
    \/ HandleGetCredentials
    \/ HandleSelectSession
    \/ HandleAuthenticate
    \/ HandleStartSession
    \/ HandleStartSessionWait
    \/ ChildSetenv
    \/ ChildChdir
    \/ ChildSetgid
    \/ ChildSetuid
    \/ ChildVerify
    \/ ChildExec
    \/ SessionEnds
    \/ TimePasses
    \/ SignalArrives
    \/ SignalInterruptsWait
    \/ OrphanEnds

Spec == Init /\ [][Next]_vars

(* ------------------------------------------------------------------ *)
(* Teardown: controller_cleanup handed a context in any state          *)
(* ------------------------------------------------------------------ *)
\* app_state_t
AppStates ==
    {"STATE_INIT", "STATE_LOAD_CONFIG", "STATE_CHECK_AUTOLOGIN",
     "STATE_SHOW_LOGIN", "STATE_GET_CREDENTIALS", "STATE_SELECT_SESSION",
     "STATE_AUTHENTICATE", "STATE_START_SESSION", "STATE_EXIT"}

\* controller_cleanup that frees the resources and leaves the secret
controller_cleanup_KeepSecret(ctx) ==
    IF ctx = NULLPTR THEN ctx
    ELSE Ref([Deref(ctx) EXCEPT !.sessions = << >>])

\* controller_cleanup(ctx) on the fields of the context it writes: the
\* secret is cleared and the session list freed
controller_cleanup(ctx) ==
    IF ctx = NULLPTR THEN ctx
    ELSE Ref([Deref(ctx) EXCEPT !.password = secure_memzero(@),
                                !.sessions = << >>])

\* a context in any state of the controller, holding any identity, secret
\* and session list
InitTeardown ==
    /\ state \in AppStates
    /\ running \in BOOLEAN
    /\ result = KIA_SUCCESS
    /\ config \in {ConfigZero, ConfigDefaults}
    /\ auth_state = AuthStateZero
    /\ sessions \in { session_discover(fs, TRUE).list : fs \in FileSystems }
    /\ username \in Names \cup {""}
    /\ password \in Passwords
    /\ selected_session = -1
    /\ now = 1
    /\ child = NoChild
    /\ last = NoCall
    /\ streak = NoStreak
    /\ reached_at = 0
    /\ accepted = {}
    /\ launch = NoLaunch
    /\ logged = << >>
    /\ g_shutdown_requested = FALSE
    /\ scan = NoScan
    /\ cfg_call = NoCfgCall
    /\ orphans = 0
    /\ tty_fd = -1

\* a caller invokes controller_cleanup, with the context or with NULL
ControllerCleanup ==
    /\ last.op # "cleanup"
    /\ \E ctx \in {NULLPTR, Ref([password |-> password, sessions |-> sessions])} :
        LET out == controller_cleanup(ctx)
        IN  /\ password' = IF ctx = NULLPTR THEN password
                                             ELSE Deref(out).password
            /\ sessions' = IF ctx = NULLPTR THEN sessions
                                             ELSE Deref(out).sessions
            /\ last' = [NoCall EXCEPT !.op = "cleanup",
                                      !.state_null = (ctx = NULLPTR),
                                      !.password = password]
            /\ logged' = IF ctx = NULLPTR THEN << >>
                         ELSE << Ev("INFO", "Authentication module cleaned up",
                                    << >>) >>
            /\ tty_fd' = IF ctx = NULLPTR THEN tty_fd
                         ELSE TtyFdAfter(<< Call("tty_unlock", TRUE) >>, tty_fd)
    /\ UNCHANGED << state, running, result, config, auth_state, username,
                    selected_session, now, child, streak, reached_at,
                    accepted, launch, g_shutdown_requested, scan, cfg_call, orphans >>

NextTeardown == ControllerCleanup

SpecTeardown == InitTeardown /\ [][NextTeardown]_vars

(* ------------------------------------------------------------------ *)
(* The Session Launcher called directly                                *)
(* ------------------------------------------------------------------ *)
\* the descriptors and identities handed to session_start: well-formed and
\* malformed descriptors, an absent one, and identities that are absent,
\* empty, unknown, without a home directory, and valid
LaunchSessions ==
    { NULLPTR,
      Ref([name |-> "xfce", exec |-> "startxfce4", type |-> "SESSION_X11"]),
      Ref([name |-> "sway", exec |-> "sway", type |-> "SESSION_WAYLAND"]),
      Ref([name |-> "", exec |-> "sway", type |-> "SESSION_WAYLAND"]),
      Ref([name |-> "broken", exec |-> "", type |-> "SESSION_X11"]) }

LaunchUsers == { NULL, "", "alice", "bob", "ghost" }

InitLaunch ==
    /\ state = "STATE_START_SESSION"
    /\ running = TRUE
    /\ result = KIA_SUCCESS
    /\ config = ConfigDefaults
    /\ auth_state = AuthStateZero
    /\ sessions = << >>
    /\ username = ""
    /\ password = ""
    /\ selected_session = -1
    /\ now = 1
    /\ child = NoChild
    /\ last = NoCall
    /\ streak = NoStreak
    /\ reached_at = 0
    /\ accepted = {}
    /\ launch = NoLaunch
    /\ logged = << >>
    /\ g_shutdown_requested = FALSE
    /\ scan = NoScan
    /\ cfg_call = NoCfgCall
    /\ orphans = 0
    /\ tty_fd = -1

\* a caller invokes session_start: the checks, then fork
SessionStartCall ==
    /\ child.pc = "none"
    /\ \E session \in LaunchSessions, user \in LaunchUsers :
        LET chk == session_start_checks(session, user)
        IN  /\ launch' = [NoLaunch EXCEPT
                            !.called = TRUE, !.user = user, !.from = "direct",
                            !.session_null = (session = NULLPTR),
                            !.session = IF session = NULLPTR
                                        THEN NoLaunch.session
                                        ELSE Deref(session)]
            /\ IF chk # KIA_SUCCESS
               THEN result' = chk /\ UNCHANGED child
               ELSE \E fork_ok \in BOOLEAN :
                      IF fork_ok
                      THEN /\ child' = ForkedChild(Deref(session), user)
                           /\ UNCHANGED result
                      ELSE result' = KIA_ERROR_SESSION /\ UNCHANGED child
    /\ UNCHANGED << state, running, config, auth_state, sessions, username,
                    password, selected_session, now, last, streak, reached_at,
                    accepted, logged, g_shutdown_requested, scan, cfg_call, orphans, tty_fd >>

\* session_start in the parent returns after waitpid
SessionStartReturn ==
    /\ child.pc = "exited"
    /\ \E wait_ok \in BOOLEAN :
        /\ result' = WaitResult(wait_ok, child.status)
        /\ launch' = [launch EXCEPT !.waited = child.status,
                                    !.wait_ok = wait_ok]
    /\ child' = NoChild
    /\ UNCHANGED << state, running, config, auth_state, sessions, username,
                    password, selected_session, now, last, streak, reached_at,
                    accepted, logged, g_shutdown_requested, scan, cfg_call, orphans, tty_fd >>

NextLaunch ==
    \/ SessionStartCall
    \/ SessionStartReturn
    \/ ChildSetenv
    \/ ChildChdir
    \/ ChildSetgid
    \/ ChildSetuid
    \/ ChildVerify
    \/ ChildExec
    \/ SessionEnds

SpecLaunch == InitLaunch /\ [][NextLaunch]_vars

(* ------------------------------------------------------------------ *)
(* The Session Catalog called directly (src/src/session.c)             *)
(* ------------------------------------------------------------------ *)
\* the most descriptor files one session directory holds
MaxFiles == 2

\* the descriptor files a directory may hold: well-formed ones, one without
\* a Name field and one without an Exec field
DescPool ==
    { Desc("xfce", "startxfce4"), Desc("sway", "sway"),
      Desc("", "sway"), Desc("broken", "") }

\* the sequences of at most n descriptor files
RECURSIVE FileSeqs(_)
FileSeqs(n) ==
    IF n = 0 THEN { << >> }
    ELSE FileSeqs(n - 1)
         \cup { Append(q, f) : q \in { r \in FileSeqs(n - 1) : Len(r) = n - 1 },
                              f \in DescPool }

\* a session directory: absent, or holding at most MaxFiles descriptors
Dirs == { NoDir } \cup { Dir(q) : q \in FileSeqs(MaxFiles) }

\* before the first session_discover call
InitDiscover == Init

\* session_discover on the two directories
SessionDiscoverCall ==
    /\ ~scan.done
    /\ \E x \in Dirs, w \in Dirs, io_ok \in BOOLEAN :
        LET d == session_discover([x11 |-> x, wayland |-> w], io_ok)
        IN  /\ sessions' = d.list
            /\ result' = d.ret
            /\ scan' = [done |-> TRUE, x11 |-> x, wayland |-> w,
                        io_ok |-> io_ok, ret |-> d.ret]
    /\ UNCHANGED << state, running, config, auth_state, username, password,
                    selected_session, now, child, last, streak, reached_at,
                    accepted, launch, logged, g_shutdown_requested, tty_fd,
                    cfg_call, orphans >>

\* session_list_free
SessionListFree ==
    /\ scan.done
    /\ sessions' = << >>
    /\ scan' = NoScan
    /\ UNCHANGED << state, running, result, config, auth_state, username,
                    password, selected_session, now, child, last, streak,
                    reached_at, accepted, launch, logged, g_shutdown_requested,
                    tty_fd, cfg_call, orphans >>

NextDiscover ==
    \/ SessionDiscoverCall
    \/ SessionListFree

SpecDiscover == InitDiscover /\ [][NextDiscover]_vars

(* ------------------------------------------------------------------ *)
(* The Configuration provider called directly (src/src/config.c)       *)
(* ------------------------------------------------------------------ *)
\* the most lines one configuration file holds
MaxLines == 2

\* the lines a configuration file may hold: max_attempts and
\* lockout_duration at, inside and outside the ends of their ranges, a line
\* without a key, and a line for another key
LinePool ==
    { KV("max_attempts", v) : v \in {"0", "1", "5", "10", "11"} }
    \cup { KV("lockout_duration", v) : v \in {"-5", "0", "3600", "3601"} }
    \cup { KV("", "5"), KV("autologin_user", "alice") }

\* the sequences of at most n lines
RECURSIVE LineSeqs(_)
LineSeqs(n) ==
    IF n = 0 THEN { << >> }
    ELSE LineSeqs(n - 1)
         \cup { Append(q, l) : q \in { r \in LineSeqs(n - 1) : Len(r) = n - 1 },
                              l \in LinePool }

\* a configuration file: missing, or holding at most MaxLines lines
LoadFiles ==
    { [exists |-> FALSE, lines |-> << >>] }
    \cup { File(q) : q \in LineSeqs(MaxLines) }

\* what config_validate is handed: no configuration, or one with its two
\* numbers at, inside and outside the ends of their ranges
ValidateArgs ==
    { NULLPTR }
    \cup { Ref([ConfigDefaults EXCEPT !.max_attempts = m,
                                     !.lockout_duration = l]) :
             m \in {0, 1, 5, 10, 11}, l \in {-1, 0, 60, 3600, 3601} }

\* before the first call of the provider
InitConfig == Init

\* config_load on a file
ConfigLoadCall ==
    /\ \E file \in LoadFiles :
        LET c == config_load(file)
        IN  /\ config' = c.config
            /\ result' = c.ret
            /\ cfg_call' = [NoCfgCall EXCEPT !.op = "load", !.file = file,
                                             !.ret = c.ret]
    /\ UNCHANGED << state, running, auth_state, sessions, username, password,
                    selected_session, now, child, last, streak, reached_at,
                    accepted, launch, logged, g_shutdown_requested, tty_fd,
                    scan, orphans >>

\* config_validate on the configuration loaded or on one handed in
ConfigValidateCall ==
    /\ \E config_p \in ValidateArgs \cup { Ref(config) } :
        LET ret == config_validate(config_p)
        IN  /\ result' = ret
            /\ cfg_call' = [NoCfgCall EXCEPT
                              !.op = "validate",
                              !.arg_null = (config_p = NULLPTR),
                              !.arg = IF config_p = NULLPTR THEN ConfigDefaults
                                      ELSE Deref(config_p),
                              !.ret = ret]
    /\ UNCHANGED << state, running, config, auth_state, sessions, username,
                    password, selected_session, now, child, last, streak,
                    reached_at, accepted, launch, logged, g_shutdown_requested,
                    tty_fd, scan, orphans >>

NextConfig ==
    \/ ConfigLoadCall
    \/ ConfigValidateCall

SpecConfig == InitConfig /\ [][NextConfig]_vars

(* ------------------------------------------------------------------ *)
(* Properties of the Controller and the Session Launcher               *)
(* ------------------------------------------------------------------ *)
\* C1 as stated: session_start is invoked only for an identity that an
\* authenticate call of this run accepted.
C1_LaunchOnlyAfterAccepted ==
    launch.called => launch.user \in accepted

\* C1, amended: session_start is invoked either for an identity that an
\* authenticate call of this run accepted, or straight from CheckAutologin
\* for the configured autologin identity with autologin enabled; and a
\* session child exists only under such a launch.
C1_LaunchAuthenticatedOrAutologin ==
    /\ launch.called =>
          \/ /\ launch.from = "authenticate"
             /\ launch.user \in accepted
          \/ /\ launch.from = "autologin"
             /\ config.autologin_enabled
             /\ launch.user = config.autologin_user
    /\ child.pc # "none" => launch.called

C1_Witness ==
    /\ launch.called
    /\ launch.from = "authenticate"
    /\ launch.user \in accepted
    /\ child.pc = "running"

\* the steps the child has taken
StepsTaken(c) == { c.steps[i].step : i \in 1..Len(c.steps) }

\* the four ids of the child are those of the account of identity u
IdsAreTargets(c, u) ==
    /\ c.ruid = Passwd[u].pw_uid
    /\ c.euid = Passwd[u].pw_uid
    /\ c.rgid = Passwd[u].pw_gid
    /\ c.egid = Passwd[u].pw_gid

\* C2: when the child is at the execute step or has executed, its real and
\* effective uid and gid are the target identity's; when one of the four
\* differs after the drops the child has exited with a failure status and
\* has made no exec call.
C2_PrivilegeDrop ==
    /\ (child.pc \in {"exec", "running"} \/ "exec" \in StepsTaken(child))
       => IdsAreTargets(child, launch.user)
    /\ ("verify" \in StepsTaken(child) /\ ~IdsAreTargets(child, launch.user))
       => /\ child.pc = "exited"
          /\ child.status = "exit_failure"
          /\ "exec" \notin StepsTaken(child)

C2_Witness ==
    /\ child.pc = "exited"
    /\ "verify" \in StepsTaken(child)
    /\ child.euid = Passwd[launch.user].pw_uid
    /\ child.ruid = Passwd[launch.user].pw_uid
    /\ child.egid = Passwd[launch.user].pw_gid
    /\ child.rgid # Passwd[launch.user].pw_gid
    /\ child.status = "exit_failure"

\* the order of the child's steps
ChildOrder == << "setenv", "chdir", "setgid", "setuid", "verify", "exec" >>

\* C3: the child takes its steps in the order environment, working
\* directory, group drop, user drop, verification, execute, and takes a step
\* only when every step before it succeeded.
C3_ChildStepOrder ==
    /\ Len(child.steps) <= Len(ChildOrder)
    /\ \A i \in 1..Len(child.steps) :
          /\ child.steps[i].step = ChildOrder[i]
          /\ i < Len(child.steps) => child.steps[i].ok
    /\ child.pc \notin StepsTaken(child)
    /\ (child.pc \notin {"none", "running", "exited"})
       => /\ child.pc = ChildOrder[Len(child.steps) + 1]
          /\ \A i \in 1..Len(child.steps) : child.steps[i].ok

C3_Witness ==
    /\ child.pc = "running"
    /\ Len(child.steps) = 6
    /\ child.steps[3].step = "setgid"
    /\ child.steps[4].step = "setuid"
    /\ child.steps[6].step = "exec"

(* ------------------------------------------------------------------ *)
(* Properties of the Authenticator                                     *)
(* ------------------------------------------------------------------ *)
\* the lockout recorded in s is set and still in the future at time t
LockoutActive(s, t) == s.lockout_until # 0 /\ t < s.lockout_until

\* the lockout recorded in s is set and has passed at time t
LockoutExpired(s, t) == s.lockout_until # 0 /\ t >= s.lockout_until

\* C4: in every reachable AuthenticationState 0 <= failed_attempts <=
\* max_attempts, and a set lockout_until is at or after the time at which
\* failed_attempts reached max_attempts.
C4_AttemptsBounded ==
    /\ 0 <= auth_state.failed_attempts
    /\ auth_state.failed_attempts <= config.max_attempts
    /\ auth_state.lockout_until # 0 =>
          /\ reached_at # 0
          /\ auth_state.lockout_until >= reached_at

C4_Witness ==
    /\ config.max_attempts >= 2
    /\ auth_state.failed_attempts = config.max_attempts
    /\ auth_state.lockout_until # 0
    /\ now > reached_at

\* C5: the max_attempts-th consecutive provider rejection of one identity,
\* at time t, sets lockout_until = t + lockout_duration, and every
\* authenticate call that starts before lockout_until is rejected without
\* contacting the provider, whatever the secret, and changes nothing.
C5_ThresholdLockout ==
    /\ (last.op = "authenticate" /\ ProviderRejected(last)
          /\ streak.n = config.max_attempts)
       => /\ streak.t = now
          /\ auth_state.failed_attempts = config.max_attempts
          /\ auth_state.lockout_until = streak.t + config.lockout_duration
    /\ (last.op = "authenticate" /\ LockoutActive(last.pre, last.t0))
       => /\ last.ret = KIA_ERROR_AUTH
          /\ ~ProviderContacted(last)
          /\ auth_state = last.pre
    /\ (last.op = "authenticate" /\ ProviderContacted(last))
       => (last.pre.lockout_until = 0 \/ last.t0 >= last.pre.lockout_until)

C5_Witness ==
    /\ last.op = "authenticate"
    /\ config.max_attempts = 3
    /\ streak.n = 3
    /\ streak.user = last.username
    /\ CorrectSecret(last.username, last.password)
    /\ LockoutActive(last.pre, last.t0)
    /\ last.pre.lockout_until = streak.t + config.lockout_duration
    /\ last.ret = KIA_ERROR_AUTH

\* C6: a step that gives lockout_until a new non-zero value is an
\* authenticate call whose provider rejection brought failed_attempts to
\* max_attempts, and the value is the time of that call + lockout_duration.
C6_LockoutSetOnlyAtThreshold ==
    [][ (auth_state'.lockout_until # 0
           /\ auth_state'.lockout_until # auth_state.lockout_until)
        => /\ last'.op = "authenticate"
           /\ ProviderRejected(last')
           /\ auth_state'.failed_attempts = config.max_attempts
           /\ auth_state'.lockout_until = now' + config.lockout_duration ]_vars

C6_Witness ==
    /\ last.op = "authenticate"
    /\ last.pam_acct = "reject"
    /\ last.pre.lockout_until = 0
    /\ auth_state.lockout_until = now + config.lockout_duration
    /\ config.lockout_duration > 0
    /\ config.max_attempts >= 2

\* C7: an authenticate call that reaches the provider for an identity other
\* than the tracked one tracks the new identity with a counter restarted
\* from 0: a failed attempt leaves failed_attempts = 1 whatever it was.
C7_IdentitySwitchResets ==
    (last.op = "authenticate" /\ ProviderContacted(last)
        /\ last.pre.username # last.username)
    => /\ auth_state.username = last.username
       /\ auth_state.failed_attempts = (IF ProviderRejected(last) THEN 1 ELSE 0)

C7_Witness ==
    /\ last.op = "authenticate"
    /\ ProviderRejected(last)
    /\ last.pre.username = "alice"
    /\ last.pre.failed_attempts = 2
    /\ last.username = "bob"
    /\ auth_state.username = "bob"
    /\ auth_state.failed_attempts = 1

\* C8: isLockedOut returns true exactly when lockout_until is set and
\* strictly in the future; a set lockout_until that has passed is cleared
\* together with failed_attempts; otherwise the state is unchanged; an
\* absent state is never locked out.
C8_IsLockedOut ==
    last.op = "is_locked_out" =>
        IF last.state_null
        THEN ~last.locked /\ auth_state = last.pre
        ELSE /\ last.locked <=> LockoutActive(last.pre, last.t0)
             /\ LockoutExpired(last.pre, last.t0) =>
                    auth_state = [last.pre EXCEPT !.failed_attempts = 0,
                                                  !.lockout_until = 0]
             /\ ~LockoutExpired(last.pre, last.t0) => auth_state = last.pre

C8_Witness ==
    /\ last.op = "is_locked_out"
    /\ ~last.state_null
    /\ last.pre.lockout_until = last.t0
    /\ last.pre.failed_attempts > 0
    /\ ~last.locked
    /\ auth_state.failed_attempts = 0

\* C9: authenticate with an argument absent or empty returns Rejected with
\* no provider call and no change of the AuthenticationState.
C9_EmptyArgumentRejected ==
    (last.op = "authenticate"
        /\ (last.username \in {NULL, ""} \/ last.password \in {NULL, ""}
            \/ last.config_null \/ last.state_null))
    => /\ last.ret = KIA_ERROR_AUTH
       /\ ~ProviderContacted(last)
       /\ auth_state = last.pre

\* the counter an attempt starts from: 0 after an expired lockout or a
\* change of identity
AttemptBase(pre, u, t) ==
    IF LockoutExpired(pre, t) \/ pre.username # u THEN 0
    ELSE pre.failed_attempts

\* C10: a provider rejection (credentials, or account after accepted
\* credentials) adds exactly 1 to failed_attempts, sets lockout_until =
\* now + lockout_duration if and only if the new count equals max_attempts,
\* and returns Rejected.
C10_RejectionCounts ==
    (last.op = "authenticate" /\ ProviderRejected(last))
    => /\ last.ret = KIA_ERROR_AUTH
       /\ auth_state.failed_attempts =
              AttemptBase(last.pre, last.username, last.t0) + 1
       /\ auth_state.lockout_until =
              (IF auth_state.failed_attempts = config.max_attempts
               THEN now + config.lockout_duration ELSE 0)

C10_Witness ==
    /\ last.op = "authenticate"
    /\ last.pam_auth = "accept"
    /\ last.pam_acct = "reject"
    /\ last.pre.failed_attempts = 1
    /\ auth_state.failed_attempts = 2
    /\ config.max_attempts = 2
    /\ auth_state.lockout_until = now + config.lockout_duration

\* C11: an authenticate call that is not locked out and whose credential
\* check and account validation both accept returns Accepted and leaves
\* failed_attempts = 0 and lockout_until = 0, with the requested identity as
\* the tracked identity, whatever the counter was before the call.
C11_AcceptedResets ==
    (last.op = "authenticate" /\ last.pam_auth = "accept"
                              /\ last.pam_acct = "accept")
      => /\ last.ret = KIA_SUCCESS
         /\ auth_state.failed_attempts = 0
         /\ auth_state.lockout_until = 0
         /\ auth_state.username = last.username

\* an accepted call for the tracked identity that started from a counter
\* above zero
C11_Witness ==
    /\ last.op = "authenticate"
    /\ last.ret = KIA_SUCCESS
    /\ last.pam_acct = "accept"
    /\ last.pre.username = last.username
    /\ last.pre.failed_attempts > 0
    /\ auth_state.failed_attempts = 0

\* C12: resetAttempts sets failed_attempts and lockout_until to 0 and leaves
\* the tracked identity unchanged; applying it twice yields the state of
\* applying it once; after it isLockedOut returns false; on an absent state
\* it does nothing.
C12_ResetAttempts ==
    last.op = "reset_attempts"
      => IF last.state_null
         THEN /\ auth_state = last.pre
              /\ auth_reset_attempts(NULLPTR) = NULLPTR
         ELSE LET once == auth_reset_attempts(Ref(last.pre))
              IN  /\ auth_state = Deref(once)
                  /\ auth_state.failed_attempts = 0
                  /\ auth_state.lockout_until = 0
                  /\ auth_state.username = last.pre.username
                  /\ auth_reset_attempts(once) = once
                  /\ ~auth_is_locked_out(once, now).ret
                  /\ auth_is_locked_out(once, now).state = once

\* a reset of a state that was locked out with the counter at the threshold
C12_Witness ==
    /\ last.op = "reset_attempts"
    /\ ~last.state_null
    /\ last.pre.failed_attempts > 0
    /\ last.pre.lockout_until > now
    /\ last.pre.username # ""
    /\ auth_state.lockout_until = 0

\* the handler of the controller's state failed: it returned an error, or
\* it did not move on to the state that follows on success
HandlerFailed ==
    \/ result' # KIA_SUCCESS
    \/ state = "STATE_CHECK_AUTOLOGIN" /\ state' # "STATE_START_SESSION"
                                       /\ config.autologin_enabled
    \/ state = "STATE_GET_CREDENTIALS" /\ state' # "STATE_SELECT_SESSION"
    \/ state = "STATE_SELECT_SESSION" /\ state' # "STATE_AUTHENTICATE"
    \/ state = "STATE_AUTHENTICATE" /\ state' # "STATE_START_SESSION"
    \/ state = "STATE_START_SESSION" /\ state' \notin {"STATE_START_SESSION",
                                                        "STATE_EXIT"}

\* the states whose failures are recoverable
RecoverableStates ==
    {"STATE_CHECK_AUTOLOGIN", "STATE_GET_CREDENTIALS", "STATE_SELECT_SESSION",
     "STATE_AUTHENTICATE", "STATE_START_SESSION"}

\* C13: only Init and LoadConfig failures are fatal. A failure in
\* CheckAutologin, GetCredentials, SelectSession, Authenticate or StartSession
\* sets the next state to ShowLogin with the loop still running; Exit is
\* entered only from an Init or LoadConfig failure, with a nonzero result,
\* or from a successful StartSession.
C13_OnlyInitAndLoadConfigFatal ==
    [][ /\ (state \in RecoverableStates /\ state' # state /\ HandlerFailed)
           => (state' = "STATE_SHOW_LOGIN" /\ running')
        /\ (state # "STATE_EXIT" /\ state' = "STATE_EXIT")
           => \/ state \in {"STATE_INIT", "STATE_LOAD_CONFIG"}
                 /\ result' # KIA_SUCCESS
              \/ state = "STATE_START_SESSION" /\ result' = KIA_SUCCESS
      ]_vars

\* a failed launch took the controller back to ShowLogin with an error
\* result and the loop running
C13_Witness ==
    /\ state = "STATE_SHOW_LOGIN"
    /\ result = KIA_ERROR_SESSION
    /\ launch.called
    /\ running

\* C14: after handle_authenticate returned, on every branch (accepted,
\* rejected by the provider, rejected because locked out), the pending secret
\* buffer is entirely zero; and it is zero whenever the controller is in
\* StartSession.
C14_SecretZeroAfterAuthenticate ==
    /\ last.op \in {"authenticate", "is_locked_out"} => password = ""
    /\ state = "STATE_START_SESSION" => password = ""

\* an accepted authentication of a non-empty secret, the controller now in
\* StartSession
C14_Witness ==
    /\ last.op = "authenticate"
    /\ last.ret = KIA_SUCCESS
    /\ last.password # ""
    /\ state = "STATE_START_SESSION"
    /\ password = ""

\* the locked-out branch of handle_authenticate was taken with a secret
\* pending
C14_LockedOutBranchTaken ==
    last.op = "is_locked_out" /\ last.locked /\ last.password # ""

\* C15: whenever the controller has gone back to ShowLogin (after a
\* credential read failure, an empty identity or secret, an invalid or
\* cancelled session selection, or an authentication outcome) the pending
\* secret buffer is entirely zero.
C15_SecretZeroAtShowLogin ==
    state = "STATE_SHOW_LOGIN" => password = ""

\* C16: after controller_cleanup the pending secret buffer is entirely zero,
\* whatever state the controller was in and whatever the buffer held; on an
\* absent context cleanup does nothing.
C16_CleanupZeroesSecret ==
    last.op = "cleanup"
      => IF last.state_null
         THEN password = last.password /\ controller_cleanup(NULLPTR) = NULLPTR
         ELSE password = ""

\* a cleanup of a context that held a secret while the controller was in
\* the middle of a login
C16_Witness ==
    /\ last.op = "cleanup"
    /\ ~last.state_null
    /\ last.password # ""
    /\ state = "STATE_SELECT_SESSION"
    /\ password = ""

\* no event of the latest step carries a secret of the model among its
\* arguments
NoSecretLogged ==
    \A i \in 1..Len(logged) :
        \A k \in 1..Len(logged[i].args) :
            logged[i].args[k] \notin (Passwords \ {""})

\* the step the controller takes next logs the same events and leaves the
\* same state when the pending secret is p2 instead, with the answers of
\* the terminal and of the identity provider held equal; Same(p, p2) says
\* which secrets are compared
SecretBlind(Same(_, _)) ==
    /\ state = "STATE_GET_CREDENTIALS"
         => \A r \in TuiCredentials, p2 \in Passwords :
              Same(r.password, p2)
                => LET r2 == [r EXCEPT !.password = p2]
                   IN  /\ handle_get_credentials_log(r)
                            = handle_get_credentials_log(r2)
                       /\ handle_get_credentials_next(r)
                            = handle_get_credentials_next(r2)
    /\ state = "STATE_AUTHENTICATE"
         => \A p2 \in Passwords, d \in 0..MaxCallDelay, tty \in TtyOutcomes :
              Same(password, p2)
                => \A pam \in PamVerdicts(username, password) :
                     /\ handle_authenticate_log(username, password, config,
                                                auth_state, now, now + d, pam, tty)
                          = handle_authenticate_log(username, p2, config,
                                                    auth_state, now, now + d,
                                                    pam, tty)
                     /\ auth_authenticate(username, password, Ref(config),
                                          Ref(auth_state), now, now + d, pam)
                          = auth_authenticate(username, p2, Ref(config),
                                              Ref(auth_state), now, now + d, pam)

AnySecret(p, p2) == TRUE
BothEmptyOrNeither(p, p2) == (p = "") <=> (p2 = "")

\* C17 as stated: no event passed to the logger contains or depends on the
\* pending secret: with the provider's answers held equal, a run with any
\* other secret logs the same events.
C17_LogIndependentOfSecret ==
    NoSecretLogged /\ SecretBlind(AnySecret)

\* C17, amended: no event passed to the logger contains the pending secret,
\* and the events depend on it only through whether it is empty: with the
\* provider's answers held equal, a run with another secret that is empty
\* exactly when this one is logs the same events and reaches the same
\* states.
C17_LogDependsOnlyOnEmptiness ==
    NoSecretLogged /\ SecretBlind(BothEmptyOrNeither)

\* a rejected authentication of a non-empty secret that the Authenticator
\* and the controller both logged
C17_Witness ==
    /\ last.op = "authenticate"
    /\ last.password # ""
    /\ last.ret = KIA_ERROR_AUTH
    /\ \E i \in 1..Len(logged) :
         logged[i].fmt = "Authentication failed for user '%s' (attempt %d/%d): %s"
    /\ \E i \in 1..Len(logged) :
         logged[i].fmt = "Authentication failed for user '%s' (attempt %d/%d)"

\* C18: in Authenticate, when the attempt state is locked out the attempt
\* is rejected without any identity-provider call and the next state is
\* ShowLogin; otherwise the Authenticator is called, and the next state is
\* StartSession when it accepted and ShowLogin when it rejected.
C18_AuthenticateTransitions ==
    /\ last.op = "is_locked_out"
         => /\ LockoutActive(last.pre, last.t0)
            /\ last.pam_start = "not_called"
            /\ last.pam_auth = "not_called"
            /\ state = "STATE_SHOW_LOGIN"
            /\ auth_state = last.pre
    /\ last.op = "authenticate"
         => /\ ~LockoutActive(last.pre, last.t0)
            /\ last.ret = KIA_SUCCESS => state = "STATE_START_SESSION"
            /\ last.ret # KIA_SUCCESS => state = "STATE_SHOW_LOGIN"

\* an attempt made while locked out went back to ShowLogin without a
\* provider call
C18_Witness ==
    /\ last.op = "is_locked_out"
    /\ last.locked
    /\ last.pre.failed_attempts >= config.max_attempts
    /\ last.pam_start = "not_called"
    /\ state = "STATE_SHOW_LOGIN"

\* C19: StartSession invokes the Session Launcher with the selected
\* descriptor and the pending identity; when the launcher reports success
\* the next state is Exit and controller_run returns success (zero), and
\* when it reports failure the next state is ShowLogin and the loop goes on.
C19_StartSessionTransitions ==
    [][ /\ (launch'.called /\ ~launch.called)
           => /\ state = "STATE_START_SESSION"
              /\ launch'.user = username
              /\ launch'.session = sessions[selected_session + 1]
        /\ (state = "STATE_START_SESSION" /\ state' # "STATE_START_SESSION")
           => \/ /\ result' = KIA_SUCCESS
                 /\ state' = "STATE_EXIT"
                 /\ launch.called
              \/ /\ result' # KIA_SUCCESS
                 /\ state' = "STATE_SHOW_LOGIN"
                 /\ running'
      ]_vars

\* a launch after an accepted authentication succeeded and ended the loop
\* with a zero result
C19_Witness ==
    /\ state = "STATE_EXIT"
    /\ result = KIA_SUCCESS
    /\ launch.called
    /\ launch.from = "authenticate"
    /\ launch.user = username

\* C20: the parent in session_start reports a launch as a success if and
\* only if the child terminated by exiting with status 0; a nonzero exit
\* status, a termination by signal and a failed wait are reported as launch
\* failures.
C20_SuccessIffExitZero ==
    launch.waited # "none"
      => /\ result = KIA_SUCCESS
              <=> (launch.wait_ok /\ launch.waited = "exit_0")
         /\ result # KIA_SUCCESS
              => (result = KIA_ERROR_SESSION /\ state = "STATE_SHOW_LOGIN")
         /\ result = WaitResult(launch.wait_ok, launch.waited)

\* a child that exited with a nonzero status after a successful wait was
\* reported as a failed launch
C20_Witness ==
    /\ launch.waited \in {"exit_failure", "exit_nonzero"}
    /\ launch.wait_ok
    /\ result = KIA_ERROR_SESSION
    /\ child = NoChild

\* C22: a shutdown request that arrives while the loop of controller_run is
\* running is observed at the top of the loop: once the handler in progress
\* has returned, no further state handler is invoked.
C22_ShutdownStopsHandlers ==
    [][ (g_shutdown_requested /\ child.pc = "none")
          => UNCHANGED << state, result, username, password,
                          selected_session, auth_state, sessions, config,
                          launch, child >> ]_vars

(* ------------------------------------------------------------------ *)
(* Properties of the Session Launcher called directly                  *)
(* ------------------------------------------------------------------ *)
\* the arguments of the latest session_start call cannot be launched: an
\* absent or empty descriptor or identity, an identity without an account
\* record, or an account without a home directory
BadLaunchArgs(l) ==
    \/ l.session_null
    \/ l.user = NULL
    \/ l.user = ""
    \/ l.session.name = ""
    \/ l.session.exec = ""
    \/ l.user \notin DOMAIN Passwd
    \/ Passwd[l.user].pw_dir = ""

\* C21: session_start returns a launch failure without creating any child
\* process when the session or identity argument is absent or empty, when
\* the identity has no account record, or when the account has no home
\* directory.
C21_BadArgumentsNoChild ==
    (launch.called /\ BadLaunchArgs(launch))
      => /\ result = KIA_ERROR_SESSION
         /\ child = NoChild
         /\ launch.waited = "none"

\* a call for an account without a home directory returned a failure and
\* left no child
C21_Witness ==
    /\ launch.called
    /\ launch.from = "direct"
    /\ launch.user = "bob"
    /\ ~launch.session_null
    /\ launch.session.name = "xfce"
    /\ result = KIA_ERROR_SESSION
    /\ child = NoChild

(* ------------------------------------------------------------------ *)
(* Properties of the calls auth_authenticate makes                     *)
(* ------------------------------------------------------------------ *)

\* the terminal-switch lock is held after the first i calls of the latest
\* auth_authenticate
HeldAfter(i) == TtyFdAfter(SubSeq(last.calls, 1, i), -1) >= 0

\* position i of the latest auth_authenticate's calls is the named call
CallAt(i, name) == i \in 1..Len(last.calls) /\ last.calls[i].call = name

\* C23: whenever auth_authenticate has returned, on any of its exit paths,
\* the terminal-switch lock is not held; within the call it is held only
\* from a tty_lock that succeeded and that directly precedes pam_start, and
\* never after the last call made before the return.
C23_LockReleasedOnReturn ==
    last.op = "authenticate" =>
        /\ tty_fd = -1
        /\ ~HeldAfter(Len(last.calls))
        /\ \A i \in 1..Len(last.calls) :
              HeldAfter(i) =>
                  /\ i < Len(last.calls)
                  /\ CallAt(1, "tty_lock") /\ last.calls[1].ok
                  /\ CallAt(2, "pam_start")
                  /\ \A j \in 2..i : last.calls[j].call # "tty_lock"

\* C23 witness: the provider's session failed to start while the lock was
\* held, and auth_authenticate returned with the lock released.
C23_Witness ==
    /\ last.op = "authenticate"
    /\ last.ret = KIA_ERROR_PAM
    /\ Len(last.calls) = 3
    /\ HeldAfter(1) /\ HeldAfter(2)
    /\ CallAt(3, "tty_unlock")
    /\ tty_fd = -1

\* C24: within one auth_authenticate call pam_acct_mgmt is called only
\* after pam_authenticate was called and accepted in that call; when
\* pam_authenticate rejects, pam_acct_mgmt is not called; when the call is
\* rejected for bad arguments or lockout, neither is called.
C24_AccountCheckOnlyAfterAcceptedCredentials ==
    last.op = "authenticate" =>
        /\ \A i \in 1..Len(last.calls) :
              CallAt(i, "pam_acct_mgmt") =>
                  \E j \in 1..(i - 1) :
                      CallAt(j, "pam_authenticate") /\ last.calls[j].ok
        /\ (\E j \in 1..Len(last.calls) :
                CallAt(j, "pam_authenticate") /\ ~last.calls[j].ok)
              => \A i \in 1..Len(last.calls) : ~CallAt(i, "pam_acct_mgmt")
        /\ (last.config_null \/ last.state_null \/ last.username = NULL
              \/ last.password = NULL
              \/ auth_is_locked_out(Ref(last.pre), last.t0).ret)
              => \A i \in 1..Len(last.calls) :
                     /\ ~CallAt(i, "pam_authenticate")
                     /\ ~CallAt(i, "pam_acct_mgmt")
        /\ (last.pam_acct # "not_called")
              <=> \E i \in 1..Len(last.calls) : CallAt(i, "pam_acct_mgmt")
        /\ (last.pam_auth # "not_called")
              <=> \E i \in 1..Len(last.calls) : CallAt(i, "pam_authenticate")

\* C24 witness: the credential check accepted and the account validation,
\* called after it, rejected.
C24_Witness ==
    /\ last.op = "authenticate"
    /\ CallAt(3, "pam_authenticate") /\ last.calls[3].ok
    /\ CallAt(4, "pam_acct_mgmt") /\ ~last.calls[4].ok
    /\ last.ret = KIA_ERROR_AUTH

\* the credential check rejected and no account validation was called;
\* a call rejected for lockout made no call to the provider
C24_LockedOutWitness ==
    /\ last.op = "authenticate"
    /\ auth_is_locked_out(Ref(last.pre), last.t0).ret
    /\ last.calls = << >>

C24_RejectedWitness ==
    /\ last.op = "authenticate"
    /\ last.pam_acct = "not_called"
    /\ CallAt(3, "pam_authenticate") /\ ~last.calls[3].ok
    /\ CallAt(4, "pam_end")

(* ------------------------------------------------------------------ *)
(* Properties of the controller's transitions, continued               *)
(* ------------------------------------------------------------------ *)

\* autologin can go ahead: it is enabled, the configured identity is not
\* empty and getpwnam resolves it, and the default session resolves to an
\* index of the catalog
AutologinReady ==
    /\ config.autologin_enabled
    /\ config.autologin_user # ""
    /\ config.autologin_user \in DOMAIN Passwd
    /\ LET idx == find_default_session(sessions, config.default_session)
       IN  idx >= 0 /\ idx < Len(sessions)

\* C25: the handler of CheckAutologin sets the next state to StartSession
\* exactly when autologin is enabled, the configured identity is non-empty
\* and resolvable and the default session resolves to a valid index of the
\* catalog; in every other case the next state is ShowLogin; it is never
\* Exit.
C25_CheckAutologinTransitions ==
    [][ (state = "STATE_CHECK_AUTOLOGIN" /\ state' # state)
           => /\ state' = "STATE_START_SESSION" <=> AutologinReady
              /\ ~AutologinReady => state' = "STATE_SHOW_LOGIN"
              /\ state' # "STATE_EXIT"
              /\ running'
      ]_vars

\* C25 witness: autologin went ahead to StartSession with the configured
\* identity and a valid catalog index.
C25_Witness ==
    /\ state = "STATE_START_SESSION"
    /\ launch.from = "autologin"
    /\ ~launch.called
    /\ config.autologin_enabled
    /\ username = config.autologin_user
    /\ selected_session \in 0..(Len(sessions) - 1)
    /\ last = NoCall

\* autologin was enabled for an identity getpwnam does not resolve, and the
\* controller fell back to ShowLogin
C25_UnresolvableWitness ==
    /\ state = "STATE_SHOW_LOGIN"
    /\ config.autologin_enabled
    /\ config.autologin_user = "ghost"
    /\ \E i \in 1..Len(logged) :
          logged[i].fmt = "Autologin user '%s' does not exist"

\* autologin was enabled with no identity configured
C25_NoIdentityWitness ==
    /\ state = "STATE_SHOW_LOGIN"
    /\ config.autologin_enabled
    /\ config.autologin_user = ""
    /\ username = ""

\* what tui_get_credentials can hand back with success, an empty identity
\* name included
SuccessfulReads ==
    { [ret |-> KIA_SUCCESS, username |-> u, password |-> p] :
        u \in Names \cup {""}, p \in Passwords }

\* C26: the controller never calls the Authenticator with an empty identity
\* name or an empty secret. From GetCredentials an empty identity name or an
\* empty secret leads to ShowLogin; from SelectSession an invalid or
\* cancelled selection leads to ShowLogin; Authenticate is entered only from
\* SelectSession, with both buffers non-empty and a valid selection.
C26_NoEmptyCredentialsToAuthenticator ==
    [][ /\ last'.op \in {"authenticate", "is_locked_out"}
           => last'.username # "" /\ last'.password # ""
        /\ (state = "STATE_GET_CREDENTIALS" /\ state' # state
              /\ (username' = "" \/ password' = ""))
           => state' = "STATE_SHOW_LOGIN"
        /\ \A r \in SuccessfulReads :
              (r.username = "" \/ r.password = "")
              => handle_get_credentials_next(r).state = "STATE_SHOW_LOGIN"
        /\ (state = "STATE_SELECT_SESSION" /\ state' # state
              /\ selected_session' \notin 0..(Len(sessions) - 1))
           => state' = "STATE_SHOW_LOGIN"
        /\ (state # "STATE_AUTHENTICATE" /\ state' = "STATE_AUTHENTICATE")
           => /\ state = "STATE_SELECT_SESSION"
              /\ username' # "" /\ password' # ""
              /\ selected_session' \in 0..(Len(sessions) - 1)
      ]_vars

\* C26 witness: an identity name was read with an empty secret and the
\* controller went back to ShowLogin.
C26_Witness ==
    /\ state = "STATE_SHOW_LOGIN"
    /\ username # "" /\ password = ""
    /\ last = NoCall
    /\ \E i \in 1..Len(logged) :
          logged[i].fmt = "Empty password provided for user '%s'"

\* the session selection was cancelled after credentials were read
C26_CancelledWitness ==
    /\ state = "STATE_SHOW_LOGIN"
    /\ selected_session = -1
    /\ username # "" /\ password # ""
    /\ \E i \in 1..Len(logged) :
          logged[i].fmt = "Invalid session selection: %d"

\* the Authenticator was called with a non-empty identity name and secret
C26_CalledWitness ==
    /\ last.op = "authenticate"
    /\ last.username \in Names /\ last.password \in Passwords \ {""}
    /\ last.ret = KIA_ERROR_AUTH

\* the latest step logged that the configuration could not be loaded
ConfigFailureLogged ==
    \E i \in 1..Len(logged) :
        logged[i].fmt = "Failed to load config from %s, using defaults"

\* C27: in LoadConfig a failure of the Configuration provider is never
\* fatal: with a non-empty catalog the controller goes on to CheckAutologin.
\* A discovery that fails or yields zero sessions sets the state to Exit
\* with a nonzero result, the loop runs no further handler, and ShowLogin is
\* not entered in that run.
C27_LoadConfigTransitions ==
    [][ /\ (state = "STATE_LOAD_CONFIG" /\ state' # state)
           => /\ state' \in {"STATE_CHECK_AUTOLOGIN", "STATE_EXIT"}
              /\ Len(sessions') > 0
                   => /\ state' = "STATE_CHECK_AUTOLOGIN"
                      /\ result' = KIA_SUCCESS
                      /\ running'
              /\ Len(sessions') = 0
                   => /\ state' = "STATE_EXIT"
                      /\ result' # KIA_SUCCESS
        /\ state = "STATE_EXIT"
           => state' = "STATE_EXIT" /\ result' = result
        /\ state' = "STATE_SHOW_LOGIN" => Len(sessions') > 0
      ]_vars

\* C27 witness: the configuration could not be loaded, sessions were
\* discovered, and the controller went on to CheckAutologin.
C27_Witness ==
    /\ state = "STATE_CHECK_AUTOLOGIN"
    /\ ConfigFailureLogged
    /\ Len(sessions) > 0
    /\ result = KIA_SUCCESS
    /\ running

\* no session was discovered and the controller left its loop with an error
C27_ExitWitness ==
    /\ state = "STATE_EXIT"
    /\ result = KIA_ERROR_SESSION
    /\ sessions = << >>
    /\ ~ConfigFailureLogged

(* ------------------------------------------------------------------ *)
(* Properties of the Session Catalog                                   *)
(* ------------------------------------------------------------------ *)

\* the descriptor files of a directory that hold both a Name and an Exec
\* field, as catalog entries of the directory's type; none for an absent
\* directory
RECURSIVE WellFormed(_, _)
WellFormed(files, type) ==
    IF files = << >> THEN << >>
    ELSE LET f == Head(files)
         IN  (IF f.name # "" /\ f.exec # ""
              THEN << [name |-> f.name, exec |-> f.exec, type |-> type] >>
              ELSE << >>)
             \o WellFormed(Tail(files), type)

WellFormedOf(dir, type) ==
    IF dir.exists THEN WellFormed(dir.files, type) ELSE << >>

\* C28: when the two directories could be read, the catalog session_discover
\* leaves is the well-formed descriptors of the X11 directory followed by
\* those of the Wayland directory, so its count is the number of descriptor
\* files with both fields; a descriptor lacking a field and an absent
\* directory add nothing and do not fail the discovery; the call reports an
\* error exactly when the catalog is empty.
C28_CatalogIsUnionOfWellFormed ==
    (scan.done /\ scan.io_ok) =>
        /\ sessions = WellFormedOf(scan.x11, "SESSION_X11")
                        \o WellFormedOf(scan.wayland, "SESSION_WAYLAND")
        /\ Len(sessions) = Len(WellFormedOf(scan.x11, "SESSION_X11"))
                           + Len(WellFormedOf(scan.wayland, "SESSION_WAYLAND"))
        /\ (scan.ret = KIA_ERROR_SESSION) <=> (Len(sessions) = 0)
        /\ (scan.ret = KIA_SUCCESS) <=> (Len(sessions) > 0)

\* C28 witness: one directory is absent, the other holds a descriptor
\* without an Exec field and a well-formed one; the catalog holds the one
\* well-formed entry and the discovery succeeded.
C28_Witness ==
    /\ scan.done /\ scan.io_ok
    /\ ~scan.wayland.exists
    /\ scan.x11.exists /\ Len(scan.x11.files) = 2
    /\ \E i \in 1..2 : scan.x11.files[i].exec = ""
    /\ Len(sessions) = 1
    /\ scan.ret = KIA_SUCCESS

\* both directories exist and hold no well-formed descriptor: the discovery
\* reports an error
C28_EmptyWitness ==
    /\ scan.done /\ scan.io_ok
    /\ scan.x11.exists /\ scan.wayland.exists
    /\ Len(scan.wayland.files) > 0
    /\ sessions = << >>
    /\ scan.ret = KIA_ERROR_SESSION

(* ------------------------------------------------------------------ *)
(* Properties of the Configuration provider                            *)
(* ------------------------------------------------------------------ *)

\* the file holds a max_attempts line whose number is outside [1,10]
HasOutOfRangeMaxAttempts(file) ==
    /\ file.exists
    /\ \E i \in 1..Len(file.lines) :
          /\ file.lines[i].key = "max_attempts"
          /\ file.lines[i].value # ""
          /\ atoi(file.lines[i].value) \notin 1..10

\* the file holds a max_attempts line whose number is inside [1,10]
HasInRangeMaxAttempts(file) ==
    /\ file.exists
    /\ \E i \in 1..Len(file.lines) :
          /\ file.lines[i].key = "max_attempts"
          /\ atoi(file.lines[i].value) \in 1..10

C29_MixedFileLoaded ==
    /\ cfg_call.op = "load"
    /\ HasOutOfRangeMaxAttempts(cfg_call.file)
    /\ HasInRangeMaxAttempts(cfg_call.file)
    /\ config.max_attempts # 3

\* C30: config_validate returns success if and only if it was handed a
\* configuration with max_attempts in [1,10] and lockout_duration in
\* [0,3600]; for a value outside either range, and for no configuration,
\* it returns the configuration error.
C30_ValidateAcceptsIffInRange ==
    cfg_call.op = "validate" =>
        /\ cfg_call.ret \in {KIA_SUCCESS, KIA_ERROR_CONFIG}
        /\ (cfg_call.ret = KIA_SUCCESS)
             <=> /\ ~cfg_call.arg_null
                 /\ cfg_call.arg.max_attempts \in 1..10
                 /\ cfg_call.arg.lockout_duration \in 0..3600

\* what config_validate does check: the range of max_attempts, the sign of
\* lockout_duration, and the presence of the configuration
C30_ValidateChecks ==
    cfg_call.op = "validate" =>
        /\ cfg_call.ret \in {KIA_SUCCESS, KIA_ERROR_CONFIG}
        /\ (cfg_call.ret = KIA_SUCCESS)
             <=> /\ ~cfg_call.arg_null
                 /\ cfg_call.arg.max_attempts \in 1..10
                 /\ cfg_call.arg.lockout_duration >= 0

(* ------------------------------------------------------------------ *)
(* Properties of the Authenticator, continued                          *)
(* ------------------------------------------------------------------ *)

\* the latest step was an attempt for an identity other than the tracked
\* one, made while the lockout of the tracked one was active
OtherIdentityWhileLocked ==
    /\ last.op \in {"authenticate", "is_locked_out"}
    /\ ~last.state_null
    /\ LockoutActive(last.pre, last.t0)
    /\ last.username # last.pre.username

\* C31: while a lockout is active for the tracked identity, an attempt for
\* another identity (the controller's Authenticate step, or a direct
\* auth_authenticate call) is rejected without any call to the identity
\* provider, and the tracked identity, failed_attempts and lockout_until are
\* unchanged.
C31_LockoutSuspendsEveryIdentity ==
    OtherIdentityWhileLocked =>
        /\ last.pam_start = "not_called"
        /\ last.pam_auth = "not_called"
        /\ last.pam_acct = "not_called"
        /\ last.calls = << >>
        /\ last.op = "authenticate" => last.ret = KIA_ERROR_AUTH
        /\ last.op = "is_locked_out" => last.locked
        /\ auth_state = last.pre

\* C31 witness: auth_authenticate was called for bob with valid arguments
\* while alice was tracked and locked out, and was rejected.
C31_Witness ==
    /\ OtherIdentityWhileLocked
    /\ last.op = "authenticate"
    /\ last.pre.username = "alice"
    /\ last.username = "bob"
    /\ last.password = "pw2"
    /\ ~last.config_null
    /\ last.ret = KIA_ERROR_AUTH
    /\ auth_state.username = "alice"

\* the controller's Authenticate step for bob while alice was locked out
C31_ControllerWitness ==
    /\ OtherIdentityWhileLocked
    /\ last.op = "is_locked_out"
    /\ last.username \in Names
    /\ state = "STATE_SHOW_LOGIN"

\* the latest step was a provider-rejected auth_authenticate call in a run
\* of such calls in which no call names the identity of the call before it
CycledRejection ==
    /\ last.op = "authenticate"
    /\ last.pam_auth = "reject" \/ last.pam_acct = "reject"
    /\ streak.cycled >= 1

\* C32: with max_attempts >= 2, after every call of a run of
\* provider-rejected auth_authenticate calls in which no two consecutive
\* calls name the same identity, failed_attempts is 1 and lockout_until is
\* not set, however long the run is; the same holds after every rejected
\* call that names another identity than the tracked one.
C32_CyclingEvadesLockout ==
    config.max_attempts >= 2 =>
        /\ CycledRejection
             => /\ auth_state.failed_attempts = 1
                /\ auth_state.lockout_until = 0
                /\ auth_state.username = last.username
        /\ (/\ last.op = "authenticate"
            /\ last.pam_auth = "reject" \/ last.pam_acct = "reject"
            /\ last.username # last.pre.username)
             => /\ auth_state.failed_attempts = 1
                /\ auth_state.lockout_until = 0

\* C32 witness: with max_attempts = 2 a third rejected call in a row, each
\* for another identity than the one before, left failed_attempts at 1 and
\* no lockout.
C32_Witness ==
    /\ config.max_attempts = 2
    /\ CycledRejection
    /\ streak.cycled = 3
    /\ auth_state.failed_attempts = 1
    /\ auth_state.lockout_until = 0

\* C33: in every AuthenticationState reached from the initial one through
\* auth_authenticate, auth_is_locked_out and auth_reset_attempts under one
\* valid configuration, lockout_until is set (not 0) if and only if
\* failed_attempts equals max_attempts.
C33_LockoutSetIffAtThreshold ==
    (auth_state.lockout_until # 0)
        <=> (auth_state.failed_attempts = config.max_attempts)

\* C33 witness: an expired lockout was cleared by auth_is_locked_out, and
\* the counter went back to 0 with it.
C33_Witness ==
    /\ last.op = "is_locked_out"
    /\ ~last.state_null
    /\ last.pre.lockout_until # 0
    /\ last.pre.failed_attempts = config.max_attempts
    /\ auth_state.lockout_until = 0
    /\ auth_state.failed_attempts = 0

\* the threshold was reached and the lockout set by the same call
C33_SetWitness ==
    /\ last.op = "authenticate"
    /\ last.pre.failed_attempts = config.max_attempts - 1
    /\ last.pre.lockout_until = 0
    /\ config.max_attempts >= 2
    /\ auth_state.failed_attempts = config.max_attempts
    /\ auth_state.lockout_until # 0

\* the latest auth_authenticate call had all its arguments
ValidArguments ==
    /\ last.username # NULL /\ last.password # NULL
    /\ ~last.config_null /\ ~last.state_null

\* C34: with lockout_duration = 0 reaching max_attempts never suspends
\* authentication: a lockout that was written is expired at every later
\* time; the next auth_is_locked_out call reports no lockout and clears
\* failed_attempts and lockout_until; the next auth_authenticate call
\* clears them too and contacts the identity provider.
C34_ZeroDurationNeverSuspends ==
    config.lockout_duration = 0 =>
        /\ ~LockoutActive(auth_state, now)
        /\ (last.op = "is_locked_out" /\ ~last.state_null)
             => /\ ~last.locked
                /\ last.pre.lockout_until # 0
                     => /\ auth_state.failed_attempts = 0
                        /\ auth_state.lockout_until = 0
        /\ (last.op = "authenticate" /\ ValidArguments)
             => /\ last.pam_start # "not_called"
                /\ CallAt(2, "pam_start")
                /\ last.pre.lockout_until # 0
                     => /\ last.pam_start = "fail"
                             => /\ auth_state.failed_attempts = 0
                                /\ auth_state.lockout_until = 0
                        /\ (last.pam_auth = "reject" \/ last.pam_acct = "reject")
                             => auth_state.failed_attempts = 1
                        /\ last.ret = KIA_SUCCESS
                             => /\ auth_state.failed_attempts = 0
                                /\ auth_state.lockout_until = 0

\* C34 witness: with lockout_duration = 0 and max_attempts = 2, an
\* auth_authenticate call made with the lockout of the second failure
\* written contacted the provider and counted from 0 again.
C34_Witness ==
    /\ config.lockout_duration = 0
    /\ config.max_attempts = 2
    /\ last.op = "authenticate"
    /\ ValidArguments
    /\ last.pre.failed_attempts = 2
    /\ last.pre.lockout_until # 0
    /\ last.username = last.pre.username
    /\ last.pam_auth = "reject"
    /\ auth_state.failed_attempts = 1
    /\ auth_state.lockout_until = 0

\* auth_is_locked_out cleared the lockout written with lockout_duration = 0
C34_ClearedWitness ==
    /\ config.lockout_duration = 0
    /\ last.op = "is_locked_out"
    /\ ~last.state_null
    /\ last.pre.lockout_until # 0
    /\ ~last.locked
    /\ auth_state = [last.pre EXCEPT !.failed_attempts = 0,
                                     !.lockout_until = 0]

(* ------------------------------------------------------------------ *)
(* Properties of the launch after a login                              *)
(* ------------------------------------------------------------------ *)

\* C35: when StartSession is entered from Authenticate, the
\* auth_authenticate call of that step accepted the pending identity, and
\* that step leaves the identity, the selected index and the catalog alone;
\* Authenticate is entered from SelectSession with the index just chosen, a
\* valid one; the launcher is then invoked with the accepted identity and
\* the descriptor at that index, and at every launcher invocation
\* 0 <= index < catalog count.
C35_LaunchesAcceptedIdentityAndChosenSession ==
    [][ /\ (state = "STATE_AUTHENTICATE" /\ state' = "STATE_START_SESSION")
           => /\ last'.op = "authenticate"
              /\ last'.ret = KIA_SUCCESS
              /\ last'.username = username
              /\ launch'.auth_user = username
              /\ username' = username
              /\ selected_session' = selected_session
              /\ sessions' = sessions
        /\ (state = "STATE_SELECT_SESSION" /\ state' = "STATE_AUTHENTICATE")
           => /\ selected_session' \in 0..(Len(sessions) - 1)
              /\ username' = username /\ sessions' = sessions
        /\ (state \in {"STATE_AUTHENTICATE", "STATE_START_SESSION"}
              /\ state' \in {"STATE_AUTHENTICATE", "STATE_START_SESSION"})
           => /\ selected_session' = selected_session
              /\ username' = username /\ sessions' = sessions
        /\ (launch'.called /\ ~launch.called)
           => /\ 0 <= selected_session
              /\ selected_session < Len(sessions)
              /\ launch'.session = sessions[selected_session + 1]
              /\ launch.from = "authenticate"
                   => /\ launch'.user = launch.auth_user
                      /\ launch.auth_user \in accepted
      ]_vars

\* C35 witness: the launcher was invoked after a login with the accepted
\* identity and the second descriptor of the catalog.
C35_Witness ==
    /\ launch.called
    /\ launch.from = "authenticate"
    /\ launch.user = launch.auth_user
    /\ launch.user \in Names
    /\ selected_session = 1
    /\ Len(sessions) = 2
    /\ launch.session = sessions[2]

(* ------------------------------------------------------------------ *)
(* C36: the forked child is the only concurrency                       *)
(* ------------------------------------------------------------------ *)
\* the session children alive: the one session_start waits for and the
\* ones it stopped waiting for
AliveChildren == (IF ChildAlive(child) THEN 1 ELSE 0) + orphans

\* C36: session_start does not return to the Controller until its child
\* has terminated: whenever the Controller is in a state other than
\* StartSession (a handler other than handle_start_session is the next
\* to run) no session child is alive, and at most one session child
\* exists at any time.
C36_SessionStartSynchronous ==
    /\ state # "STATE_START_SESSION" => AliveChildren = 0
    /\ AliveChildren <= 1

\* the wait was interrupted by a signal and the Controller is back at the
\* login screen while the session child lives
C36_ReturnedWhileChildAlive ==
    /\ state = "STATE_SHOW_LOGIN"
    /\ launch.waited = "interrupted"
    /\ orphans = 1
    /\ g_shutdown_requested

\* a second session child was forked while the first one lives
C36_TwoChildren ==
    /\ orphans = 1
    /\ ChildAlive(child)

(* ------------------------------------------------------------------ *)
(* C37: a failing step in the child fails the launch                   *)
(* ------------------------------------------------------------------ *)
\* the child took a step that failed
ChildStepFailed(c) == \E i \in 1..Len(c.steps) : ~c.steps[i].ok

\* C37: a failing step in the child (setenv, chdir, setgid, setuid, the
\* verification, or the exec calls all failing) is the child's last step
\* and terminates it with a failure status; when session_start then
\* returns, it reports a launch failure and the Controller goes to
\* ShowLogin, not to Exit, and keeps running.
C37_ChildFailureFailsLaunch ==
    [][ /\ \A i \in 1..Len(child'.steps) :
              ~child'.steps[i].ok
                => /\ i = Len(child'.steps)
                   /\ child'.pc = "exited"
                   /\ child'.status = "exit_failure"
        /\ ( /\ ChildStepFailed(child)
              /\ state = "STATE_START_SESSION"
              /\ state' # "STATE_START_SESSION" )
           => /\ result' = KIA_ERROR_SESSION
              /\ state' = "STATE_SHOW_LOGIN"
              /\ running'
              /\ launch'.waited = "exit_failure"
      ]_vars

\* the child of an X11 session got as far as the exec calls, startx and the
\* shell both failed, and the Controller is back at the login screen after
\* a wait that succeeded
C37_Witness ==
    /\ launch.waited = "exit_failure"
    /\ launch.wait_ok
    /\ launch.session.type = "SESSION_X11"
    /\ result = KIA_ERROR_SESSION
    /\ state = "STATE_SHOW_LOGIN"
    /\ child = NoChild

\* the child exited because its verification of the four ids failed
C37_VerifyFailedWitness ==
    /\ child.pc = "exited"
    /\ child.status = "exit_failure"
    /\ Len(child.steps) = 5
    /\ child.steps[5] = [step |-> "verify", ok |-> FALSE]

\* the child of an X11 session exited because both exec calls failed
C37_ExecFailedWitness ==
    /\ child.pc = "exited"
    /\ child.type = "SESSION_X11"
    /\ Len(child.steps) = 6
    /\ child.steps[6] = [step |-> "exec", ok |-> FALSE]

(* ------------------------------------------------------------------ *)
(* C38: configuration and catalog are loaded once per run              *)
(* ------------------------------------------------------------------ *)
\* C38: Init, LoadConfig and CheckAutologin each execute at most once:
\* their handlers always leave their state, Init is never entered,
\* LoadConfig is entered from Init only and CheckAutologin from LoadConfig
\* only (so the autologin is attempted at most once, and a failed autologin
\* launch goes to ShowLogin); the configuration and the catalog change in
\* the LoadConfig step only; and once the state is Exit no handler runs.
C38_LoadedOncePerRun ==
    [][ /\ HandleInit => state' # "STATE_INIT"
        /\ HandleLoadConfig => state' # "STATE_LOAD_CONFIG"
        /\ HandleCheckAutologin => state' # "STATE_CHECK_AUTOLOGIN"
        /\ state' = "STATE_INIT" => state = "STATE_INIT"
        /\ (state' = "STATE_LOAD_CONFIG" /\ state # "STATE_LOAD_CONFIG")
              => state = "STATE_INIT"
        /\ (state' = "STATE_CHECK_AUTOLOGIN" /\ state # "STATE_CHECK_AUTOLOGIN")
              => state = "STATE_LOAD_CONFIG"
        /\ (launch'.from = "autologin" /\ launch.from # "autologin")
              => state = "STATE_CHECK_AUTOLOGIN"
        /\ ( /\ launch.from = "autologin"
              /\ state = "STATE_START_SESSION"
              /\ state' # "STATE_START_SESSION"
              /\ result' # KIA_SUCCESS )
              => state' = "STATE_SHOW_LOGIN"
        /\ (sessions' # sessions \/ config' # config)
              => state = "STATE_LOAD_CONFIG"
        /\ state = "STATE_EXIT"
              => UNCHANGED << state, running, result, config, auth_state,
                              sessions, username, password, selected_session,
                              child, launch, last, logged >>
      ]_vars

\* the autologin launch failed, the login went on manually with the same
\* catalog, and an authentication was accepted afterwards
C38_Witness ==
    /\ config.autologin_enabled
    /\ launch.from = "authenticate"
    /\ launch.auth_user # ""
    /\ state = "STATE_START_SESSION"
    /\ \E e \in accepted : TRUE
    /\ Len(sessions) > 0

\* the autologin launch failed and the Controller is at the login screen
C38_FailedAutologinWitness ==
    /\ launch.from = "autologin"
    /\ launch.called
    /\ result = KIA_ERROR_SESSION
    /\ state = "STATE_SHOW_LOGIN"

\* the loop ended in Exit after a launch
C38_ExitWitness ==
    /\ state = "STATE_EXIT"
    /\ launch.called
    /\ Len(sessions) > 0

(* ------------------------------------------------------------------ *)
(* C39: autologin with no usable default session                       *)
(* ------------------------------------------------------------------ *)
\* autologin is enabled with an identity getpwnam resolves
AutologinIdentityResolves ==
    /\ config.autologin_enabled
    /\ config.autologin_user # ""
    /\ config.autologin_user \in DOMAIN Passwd

\* the configured default session name is empty or names no catalog entry
NoDefaultInCatalog ==
    \/ config.default_session = ""
    \/ \A i \in 1..Len(sessions) : sessions[i].name # config.default_session

\* C39: the catalog is never empty in CheckAutologin, and when autologin is
\* enabled with a resolvable identity and the default session name is empty
\* or matches no catalog entry, the handler of CheckAutologin does not go
\* to ShowLogin: it selects index 0, the first discovered session, takes
\* the configured identity and goes to StartSession.
C39_AutologinFallsBackToFirstSession ==
    [][ /\ state = "STATE_CHECK_AUTOLOGIN" => Len(sessions) > 0
        /\ ( /\ state = "STATE_CHECK_AUTOLOGIN"
              /\ state' # "STATE_CHECK_AUTOLOGIN"
              /\ AutologinIdentityResolves
              /\ NoDefaultInCatalog )
           => /\ state' = "STATE_START_SESSION"
              /\ selected_session' = 0
              /\ username' = config.autologin_user
              /\ launch'.from = "autologin"
      ]_vars

\* the default session "sway" is not in the catalog and the autologin goes
\* ahead with the first session
C39_Witness ==
    /\ state = "STATE_START_SESSION"
    /\ launch.from = "autologin"
    /\ config.default_session = "sway"
    /\ \A i \in 1..Len(sessions) : sessions[i].name # "sway"
    /\ selected_session = 0
    /\ username = config.autologin_user

\* the default session name is empty, the catalog holds two sessions and
\* the first one was launched for the autologin identity
C39_EmptyNameWitness ==
    /\ launch.from = "autologin"
    /\ launch.called
    /\ config.default_session = ""
    /\ Len(sessions) = 2
    /\ launch.session = sessions[1]

\* the default session is in the catalog at a later index and was selected
C39_MatchWitness ==
    /\ state = "STATE_START_SESSION"
    /\ launch.from = "autologin"
    /\ selected_session = 1
    /\ sessions[2].name = config.default_session

(* ------------------------------------------------------------------ *)
(* C40: the provider's session cannot be initialised                   *)
(* ------------------------------------------------------------------ *)
\* the latest step was an auth_authenticate call that got past the
\* argument and lockout checks and whose pam_start failed
PamStartFailed ==
    /\ last.op = "authenticate"
    /\ last.pam_start = "fail"

\* C40: when pam_start fails inside auth_authenticate (valid arguments, not
\* locked out) the call returns a failure, failed_attempts is not
\* incremented and lockout_until is not set, the terminal-switch lock is
\* released, the identity of the call is the tracked identity (with a zero
\* counter when it changed), neither pam_authenticate nor pam_acct_mgmt was
\* called, and the Controller is back in ShowLogin with the loop running
\* and the secret cleared.
C40_ProviderStartFailure ==
    PamStartFailed =>
        /\ last.ret = KIA_ERROR_PAM
        /\ last.ret # KIA_SUCCESS
        /\ auth_state.username = last.username
        /\ auth_state.failed_attempts =
              (IF last.pre.username # last.username \/ last.pre.lockout_until # 0
               THEN 0 ELSE last.pre.failed_attempts)
        /\ auth_state.failed_attempts <= last.pre.failed_attempts
        /\ auth_state.lockout_until = 0
        /\ last.pam_auth = "not_called"
        /\ last.pam_acct = "not_called"
        /\ tty_fd = -1
        /\ last.calls # << >>
        /\ last.calls[Len(last.calls)].call \in {"tty_unlock", "pam_start"}
        /\ ~HeldAfter(Len(last.calls))
        /\ state = "STATE_SHOW_LOGIN"
        /\ running
        /\ password = ""
        /\ launch.from # "authenticate"

\* alice was tracked with two failures; the call for bob met a provider
\* that could not start a session while the terminal-switch lock was held
C40_Witness ==
    /\ PamStartFailed
    /\ last.pre.username = "alice"
    /\ last.pre.failed_attempts = 2
    /\ last.username = "bob"
    /\ auth_state = [username |-> "bob", failed_attempts |-> 0,
                     lockout_until |-> 0]
    /\ HeldAfter(1)
    /\ state = "STATE_SHOW_LOGIN"

\* the same identity as before: its counter is kept as it was
C40_SameIdentityWitness ==
    /\ PamStartFailed
    /\ last.pre.username = last.username
    /\ last.pre.failed_attempts = 1
    /\ auth_state.failed_attempts = 1
    /\ state = "STATE_SHOW_LOGIN"

====
